---- MODULE Spec2Model ----
(***************************************************************************)
(* A model of the mock backend of X-chat (src/src/mock_api.py) and of the  *)
(* places of src/src/app.py that call it: the Data Store (MockDatabase),   *)
(* the data cache behind fetch_data, the stateless chart generator, the    *)
(* insight cache, and the chat task registry with its submit / poll /      *)
(* result operations.                                                      *)
(*                                                                         *)
(* Conventions.                                                            *)
(*  - A Python string whose characters matter (it is searched, joined or   *)
(*    concatenated into a cache key) is a sequence of one-character        *)
(*    strings; a character outside ASCII is written by its code point,     *)
(*    "U+5716".  Other strings (labels, titles) are TLA+ strings; an       *)
(*    f-string built from them is the sequence of its pieces.              *)
(*  - Python's None is the record None; an optional list L is [list |-> L].*)
(*  - A DataFrame is the sequence of its columns; a column is              *)
(*    [name, ver], ver being the generation of the Data Store whose        *)
(*    random draw produced the column's values.  Two DataFrames have equal *)
(*    content exactly when the sequences are equal.                        *)
(*  - A delay of s seconds is the integer 1000 * s (milliseconds).         *)
(*  - Where the identity of a DataFrame matters (SpecObjects), the Data    *)
(*    Store and the data cache hold addresses of the heap and a DataFrame  *)
(*    is heap[address]; elsewhere they hold the content itself.            *)
(*  - Callers run in threads over the same module globals.  A call that    *)
(*    waits (time.sleep) is one step up to each wait, and steps of other   *)
(*    threads fall in between; threads holds the position of each thread   *)
(*    inside its call, with the call's locals.  In SpecRace a thread may   *)
(*    be interrupted between any two statements of poll_chat_status.       *)
(***************************************************************************)
EXTENDS Naturals, Sequences, FiniteSets, TLC

VARIABLES
    db,             \* the global MockDatabase instance
    DATA_CACHE,     \* _DATA_CACHE: cache key -> DataFrame
    INSIGHT_CACHE,  \* _INSIGHT_CACHE: insight key -> insight string
    CHAT_TASKS,     \* _CHAT_TASKS: request id -> task dict
    last,           \* history: the call made last, its arguments and what it returned
    polls,          \* history: request id -> number of poll_chat_status calls made on it
                    \* (SpecRace: step -> number of polls that returned its label)
    watch,          \* history: one earlier fetch_data call, chosen freely, kept for comparison
                    \* (SpecObjects: the DataFrame the caller kept; SpecRace: the
                    \* number of runs of _generate_final_result)
    client,         \* the generator _simulate_llm_response (app.py): its position, its
                    \* local request_id, and the items it has yielded so far
    heap,           \* the DataFrame objects, where object identity matters: address -> content
    threads,        \* the calls under way: thread -> position in the call and its locals
    made            \* history: the number of fetch_data / render_dashboard calls callers made

vars == <<db, DATA_CACHE, INSIGHT_CACHE, CHAT_TASKS, last, polls, watch, client, heap, threads, made>>

----------------------------------------------------------------------------
(* Bounds of the model *)

\* number of tasks submitted in one behaviour
MaxTasks == 1
\* number of poll_chat_status calls made on a task beyond the length of its plan
MaxExtraPolls == 2
\* number of regenerations of the Data Store in one behaviour
MaxGen == 2
\* number of distinct addresses id(df) can take
MaxAddr == 2
\* number of fragments a prompt of the classification check is built from
MaxFrags == 2
\* number of tasks in flight together in the interleaving check
MaxPairTasks == 2
\* number of polls made on a task of the interleaving check beyond the length
\* of its plan
MaxPairExtraPolls == 1
\* number of prompts the chat client answers, one after the other
MaxRuns == 2
\* callers inside a call at the same time
MaxThreads == 2
\* number of fetch_data calls callers make in one behaviour
MaxFetches == 3
\* number of times the dashboard is rendered in one behaviour
MaxRenders == 2

----------------------------------------------------------------------------
(* Python values *)

None == [none |-> TRUE]
IsNone(v) == "none" \in DOMAIN v
Some(l) == [list |-> l]

RECURSIVE Join(_, _)
\* sep.join(items)
Join(items, sep) ==
    IF items = <<>> THEN <<>>
    ELSE IF Len(items) = 1 THEN items[1]
    ELSE items[1] \o sep \o Join(Tail(items), sep)

RECURSIVE Filter(_, _)
\* [c for c in items if c in keep]
Filter(items, keep) ==
    IF items = <<>> THEN <<>>
    ELSE IF Head(items) \in keep THEN <<Head(items)>> \o Filter(Tail(items), keep)
    ELSE Filter(Tail(items), keep)

\* a dict of strings, as the sequence of its (key, value) pairs
Dict(pairs) == [dict |-> pairs]

\* str(v) for v None, a list of strings or a dict of strings, the strings
\* without quotes or backslashes
PyStr(v) ==
    IF IsNone(v) THEN <<"N", "o", "n", "e">>
    ELSE IF "dict" \in DOMAIN v
    THEN <<"{">>
         \o Join([i \in 1..Len(v.dict) |->
                    <<"'">> \o v.dict[i][1] \o <<"'", ":", " ", "'">> \o v.dict[i][2] \o <<"'">>],
                 <<",", " ">>)
         \o <<"}">>
    ELSE <<"[">>
         \o Join([i \in 1..Len(v.list) |-> <<"'">> \o v.list[i] \o <<"'">>], <<",", " ">>)
         \o <<"]">>

UpperCase == <<"A", "B", "C", "D", "E", "F", "G", "H", "I", "J", "K", "L", "M",
               "N", "O", "P", "Q", "R", "S", "T", "U", "V", "W", "X", "Y", "Z">>
LowerCase == <<"a", "b", "c", "d", "e", "f", "g", "h", "i", "j", "k", "l", "m",
               "n", "o", "p", "q", "r", "s", "t", "u", "v", "w", "x", "y", "z">>

\* str.lower() of one character: ASCII capitals are folded, the other characters
\* of the model's alphabet (digits, punctuation, CJK ideographs) are unchanged
LowerChar(c) ==
    IF \E i \in 1..26 : UpperCase[i] = c
    THEN LowerCase[CHOOSE i \in 1..26 : UpperCase[i] = c]
    ELSE c

\* s.lower()
Lower(s) == [i \in 1..Len(s) |-> LowerChar(s[i])]

RECURSIVE FindFrom(_, _, _)
\* the scan behind `k in s`: does k occur in s at position i or later
FindFrom(k, s, i) ==
    IF i + Len(k) - 1 > Len(s) THEN FALSE
    ELSE IF SubSeq(s, i, i + Len(k) - 1) = k THEN TRUE
    ELSE FindFrom(k, s, i + 1)

\* k in s, for strings
In(k, s) == FindFrom(k, s, 1)

----------------------------------------------------------------------------
(* Data Store: class MockDatabase *)

Date     == <<"D", "a", "t", "e">>
ProductA == <<"P", "r", "o", "d", "u", "c", "t", " ", "A">>
ProductB == <<"P", "r", "o", "d", "u", "c", "t", " ", "B">>
ProductC == <<"P", "r", "o", "d", "u", "c", "t", " ", "C">>
Lat      == <<"l", "a", "t">>
Lon      == <<"l", "o", "n">>

SalesTable   == <<"s", "a", "l", "e", "s", "_", "t", "a", "b", "l", "e">>
UserGeoTable == <<"u", "s", "e", "r", "_", "g", "e", "o", "_", "t", "a", "b", "l", "e">>

\* one column of a DataFrame whose values were drawn in generation g
Column(name, g) == [name |-> name, ver |-> g]

\* df.columns, as the sequence of names
Columns(df) == [i \in 1..Len(df) |-> df[i].name]

\* `c in df.columns`
HasColumn(df, c) == \E i \in 1..Len(df) : df[i].name = c

\* df[c]
GetColumn(df, c) == df[CHOOSE i \in 1..Len(df) : df[i].name = c]

\* df[valid_cols]
Project(df, valid_cols) == [i \in 1..Len(valid_cols) |-> GetColumn(df, valid_cols[i])]

\* pd.DataFrame()
EmptyFrame == <<>>

\* MockDatabase._generate_data, in generation g: both tables are drawn afresh
\* (the dates end at Timestamp.today(), so the Date column is redrawn too)
GenerateData(g) ==
    [ _sales_data |-> << Column(Date, g), Column(ProductA, g),
                         Column(ProductB, g), Column(ProductC, g) >>,
      _geo_data   |-> << Column(Lat, g), Column(Lon, g) >>,
      _last_update_time |-> g ]

\* check_for_updates that draws only the sales table afresh
check_for_updates_sales_only(d, roll) ==
    IF roll
    THEN [db |-> [d EXCEPT !._sales_data = GenerateData(d._last_update_time + 1)._sales_data,
                           !._last_update_time = d._last_update_time + 1],
          ret |-> TRUE]
    ELSE [db |-> d, ret |-> FALSE]

\* MockDatabase.check_for_updates; roll is the outcome of np.random.random() < 0.1
check_for_updates(d, roll) ==
    IF roll
    THEN [db |-> GenerateData(d._last_update_time + 1), ret |-> TRUE]
    ELSE [db |-> d, ret |-> FALSE]

get_sales_data(d) == d._sales_data
get_geo_data(d) == d._geo_data

----------------------------------------------------------------------------
(* 1. Data Fetch API *)

\* the f-string of fetch_data's cache key
CacheKey(raw_data_source, columns, filters, groupby, aggregation) ==
    raw_data_source \o <<"|">>
    \o Join(IF IsNone(columns) THEN <<>> ELSE columns.list, <<"-">>) \o <<"|">>
    \o PyStr(filters) \o <<"|">> \o PyStr(groupby) \o <<"|">> \o PyStr(aggregation)

\* the table the cold path reads
SourceFrame(d, raw_data_source) ==
    IF raw_data_source = SalesTable THEN get_sales_data(d)
    ELSE IF raw_data_source = UserGeoTable THEN get_geo_data(d)
    ELSE EmptyFrame

\* "Mocking processing logic": the projection of the cold path
ProcessColumns(df, columns) ==
    IF (~IsNone(columns)) /\ columns.list # <<>>
    THEN LET valid_cols == Filter(columns.list, {df[i].name : i \in 1..Len(df)})
         IN  IF valid_cols # <<>> THEN Project(df, valid_cols) ELSE df
    ELSE df

\* a local variable: F applied to the value of v, computed once
Bind(v, F(_)) == CHOOSE r \in {F(x) : x \in {v}} : TRUE

\* fetch_data, lines 73-77: the key is built, the Data Store is asked whether
\* it changed, and the path is decided.  The call then sleeps (line 79 on the
\* cache path, line 83 on the cold path).
fetch_data_begin(d, cache, raw_data_source, columns, filters, groupby, aggregation, roll) ==
    LET cache_key == CacheKey(raw_data_source, columns, filters, groupby, aggregation)
        upd == check_for_updates(d, roll)
        data_updated == upd.ret
    IN  [ db |-> upd.db, key |-> cache_key,
          path |-> IF (~data_updated) /\ cache_key \in DOMAIN cache THEN "hit" ELSE "miss" ]

\* fetch_data after the sleep: line 80 on the cache path, lines 85-100 on the
\* cold path.  d and cache are the Data Store and the data cache as they are
\* when the call wakes up.  is_entry says whether the object returned is the
\* very object the cache holds under the key: .copy() makes a new object.
fetch_data_end(d, cache, raw_data_source, columns, cache_key, path) ==
    IF path = "hit"
    THEN [ cache |-> cache, ret |-> cache[cache_key], is_entry |-> FALSE ]
    ELSE LET df == ProcessColumns(SourceFrame(d, raw_data_source), columns)
         IN  [ cache |-> [k \in DOMAIN cache \cup {cache_key} |->
                             IF k = cache_key THEN df ELSE cache[k]],
               ret |-> df, is_entry |-> FALSE ]

\* fetch_data run from its first line to its last with no other call in
\* between.  Returns the new Data Store and data cache, the DataFrame returned
\* (ret) and the path taken.
fetch_data(d, cache, raw_data_source, columns, filters, groupby, aggregation, roll) ==
    Bind(fetch_data_begin(d, cache, raw_data_source, columns, filters, groupby,
                          aggregation, roll), LAMBDA b :
    Bind(fetch_data_end(b.db, cache, raw_data_source, columns, b.key, b.path), LAMBDA e :
        [ db |-> b.db, cache |-> e.cache, ret |-> e.ret, path |-> b.path,
          is_entry |-> e.is_entry, key |-> b.key ]))

----------------------------------------------------------------------------
(* The Data Store and the Data Fetch API on objects: a DataFrame is an object
   of the heap h (address -> content); the Data Store and the data cache hold
   addresses, and fetch_data returns one. *)

\* the address of the next object created
NewAddr(h) ==
    CHOOSE a \in 1..(Cardinality(DOMAIN h) + 1) :
        a \notin DOMAIN h /\ \A b \in 1..(a - 1) : b \in DOMAIN h

\* a new DataFrame object with the given content
New(h, content) ==
    Bind(h, LAMBDA hh :
    Bind(NewAddr(hh), LAMBDA ref :
        [ heap |-> [a \in DOMAIN hh \cup {ref} |-> IF a = ref THEN content ELSE hh[a]],
          ref |-> ref ]))

\* _generate_data that writes the new values into the DataFrames it has
generate_data_in_place(h, d) ==
    LET g == d._last_update_time + 1
    IN  [ heap |-> [a \in DOMAIN h |->
                       IF a = d._sales_data THEN GenerateData(g)._sales_data
                       ELSE IF a = d._geo_data THEN GenerateData(g)._geo_data
                       ELSE h[a]],
          db |-> [d EXCEPT !._last_update_time = g] ]

\* MockDatabase._generate_data: two new DataFrames are built and the
\* attributes are bound to them
generate_data_objects(h, d) ==
    LET g == d._last_update_time + 1
    IN  Bind(New(h, GenerateData(g)._sales_data), LAMBDA s :
        Bind(New(s.heap, GenerateData(g)._geo_data), LAMBDA t :
            [ heap |-> t.heap,
              db |-> [ _sales_data |-> s.ref, _geo_data |-> t.ref,
                       _last_update_time |-> g ] ]))

\* MockDatabase.check_for_updates
check_for_updates_objects(h, d, roll) ==
    IF roll
    THEN Bind(generate_data_objects(h, d), LAMBDA r :
            [heap |-> r.heap, db |-> r.db, ret |-> TRUE])
    ELSE [heap |-> h, db |-> d, ret |-> FALSE]

\* `valid_cols = [c for c in columns if c in df.columns]`, empty when no
\* columns are asked for
ValidCols(df, columns) ==
    IF (~IsNone(columns)) /\ columns.list # <<>>
    THEN Filter(columns.list, {df[i].name : i \in 1..Len(df)})
    ELSE <<>>

\* fetch_data, lines 73-77, on objects: a regeneration binds the Data Store to
\* new objects
fetch_data_objects_begin(h, d, cache, raw_data_source, columns, filters, groupby, aggregation, roll) ==
    Bind(CacheKey(raw_data_source, columns, filters, groupby, aggregation), LAMBDA cache_key :
    Bind(check_for_updates_objects(h, d, roll), LAMBDA upd :
        [ heap |-> upd.heap, db |-> upd.db, key |-> cache_key,
          path |-> IF (~upd.ret) /\ cache_key \in DOMAIN cache THEN "hit" ELSE "miss" ]))

\* fetch_data after the sleep (line 80, lines 85-100), on objects: ref is the
\* object returned
fetch_data_objects_end(h, d, cache, raw_data_source, columns, cache_key, path) ==
    IF path = "hit"
    THEN Bind(New(h, h[cache[cache_key]]), LAMBDA c :
            [ heap |-> c.heap, cache |-> cache, ref |-> c.ref ])
    ELSE Bind(IF raw_data_source = SalesTable
              THEN [heap |-> h, ref |-> d._sales_data]
              ELSE IF raw_data_source = UserGeoTable
              THEN [heap |-> h, ref |-> d._geo_data]
              ELSE New(h, EmptyFrame), LAMBDA src :
         Bind(ValidCols(src.heap[src.ref], columns), LAMBDA valid_cols :
         Bind(IF valid_cols # <<>>
              THEN New(src.heap, Project(src.heap[src.ref], valid_cols))
              ELSE src, LAMBDA df :
         Bind(New(df.heap, df.heap[df.ref]), LAMBDA c :
            [ heap |-> c.heap,
              cache |-> [k \in DOMAIN cache \cup {cache_key} |->
                            IF k = cache_key THEN c.ref ELSE cache[k]],
              ref |-> df.ref ]))))

\* the value a caller writes into a DataFrame it holds
Mutated == 0 - 1
\* df.loc[:, :] = ..., by a caller
Mutate(df) == [i \in 1..Len(df) |-> [df[i] EXCEPT !.ver = Mutated]]
IsMutated(df) == \E i \in 1..Len(df) : df[i].ver = Mutated

----------------------------------------------------------------------------
(* 2. Universal Chart Generation API *)

\* config.get(k, default)
Get(config, k, default) == IF k \in DOMAIN config THEN config[k] ELSE default

RECURSIVE LineTraces(_, _, _)
\* the traces the loop over y_cols adds to the figure
LineTraces(data, x_col, y_cols) ==
    IF y_cols = <<>> THEN <<>>
    ELSE LET col == Head(y_cols)
             rest == LineTraces(data, x_col, Tail(y_cols))
         IN  IF HasColumn(data, col) /\ HasColumn(data, x_col)
             THEN << [ type |-> "scatter", mode |-> "lines", name |-> col,
                       x |-> GetColumn(data, x_col), y |-> GetColumn(data, col) ] >> \o rest
             ELSE rest

\* the chart generator without the `col in data.columns` test of its loop:
\* data[col] raises KeyError for a column the data lacks
generate_universal_chart_unguarded(chart_type, data, config) ==
    IF chart_type = "line"
    THEN IF \E i \in 1..Len(Get(config, "y", <<>>)) : ~HasColumn(data, Get(config, "y", <<>>)[i])
         THEN [ error |-> "KeyError" ]
         ELSE [ spec |->
                  [ data |-> LineTraces(data, Get(config, "x", Date), Get(config, "y", <<>>)),
                    layout |-> [ title |-> Get(config, "title", "Line Chart"),
                                 template |-> "plotly_white" ] ] ]
    ELSE IF chart_type = "map"
    THEN IF HasColumn(data, Get(config, "lat", Lat)) /\ HasColumn(data, Get(config, "lon", Lon))
         THEN [ spec |->
                  [ data |-> << [ type |-> "scattergeo", mode |-> "markers",
                                  lon |-> GetColumn(data, Get(config, "lon", Lon)),
                                  lat |-> GetColumn(data, Get(config, "lat", Lat)) ] >>,
                    layout |-> [ title |-> Get(config, "title", "Map Distribution"),
                                 geo_scope |-> "asia",
                                 template |-> "plotly_white" ] ] ]
         ELSE [ spec |-> <<>> ]
    ELSE [ spec |-> [ data |-> <<>>, layout |-> [ title |-> "Unknown Chart Type" ] ] ]

\* generate_universal_chart: {"spec": json.loads(fig.to_json())}; the empty
\* dict {} is the function with empty domain, <<>>
generate_universal_chart(chart_type, data, config) ==
    IF chart_type = "line"
    THEN [ spec |->
             [ data |-> LineTraces(data, Get(config, "x", Date), Get(config, "y", <<>>)),
               layout |-> [ title |-> Get(config, "title", "Line Chart"),
                            template |-> "plotly_white" ] ] ]
    ELSE IF chart_type = "map"
    THEN LET lat_col == Get(config, "lat", Lat)
             lon_col == Get(config, "lon", Lon)
         IN  IF HasColumn(data, lat_col) /\ HasColumn(data, lon_col)
             THEN [ spec |->
                      [ data |-> << [ type |-> "scattergeo", mode |-> "markers",
                                      lon |-> GetColumn(data, lon_col),
                                      lat |-> GetColumn(data, lat_col) ] >>,
                        layout |-> [ title |-> Get(config, "title", "Map Distribution"),
                                     geo_scope |-> "asia",
                                     template |-> "plotly_white" ] ] ]
             ELSE [ spec |-> <<>> ]
    ELSE [ spec |-> [ data |-> <<>>, layout |-> [ title |-> "Unknown Chart Type" ] ] ]

----------------------------------------------------------------------------
(* 3. AI Insight Generation API *)

\* an insight generator that has nothing to say
InsightForBlank(chart_type) == ""

InsightFor(chart_type) ==
    IF chart_type = "line"
    THEN "Generated from raw sales_table. Product B remains strong compared to others."
    ELSE IF chart_type = "map"
    THEN "Generated from user_geo_table. Dense clustering near metropolitan areas."
    ELSE "No specific insight available for this data."

\* a lookup that finds nothing under any key
insight_lookup_blind(icache, data_hash_key) == [path |-> "miss", ret |-> ""]

\* generate_chart_insight, lines 159-161: the lookup, and on a hit the string
\* returned
insight_lookup(icache, data_hash_key) ==
    IF data_hash_key \in DOMAIN icache
    THEN [path |-> "hit", ret |-> icache[data_hash_key]]
    ELSE [path |-> "miss", ret |-> ""]

\* generate_chart_insight after the sleep of line 164, lines 166-174: the
\* insight is chosen by the chart type, stored under the key and returned.
\* icache is the insight cache as it is when the call wakes up.
insight_generate(icache, data_hash_key, chart_type) ==
    LET insight == InsightFor(chart_type)
    IN  [ cache |-> [k \in DOMAIN icache \cup {data_hash_key} |->
                        IF k = data_hash_key THEN insight ELSE icache[k]],
          ret |-> insight, path |-> "miss" ]

\* generate_chart_insight run from its first line to its last with no other
\* call in between: the new insight cache and the string returned
generate_chart_insight(icache, data_hash_key, chart_type) ==
    LET l == insight_lookup(icache, data_hash_key)
    IN  IF l.path = "hit"
        THEN [ cache |-> icache, ret |-> l.ret, path |-> "hit" ]
        ELSE insight_generate(icache, data_hash_key, chart_type)

----------------------------------------------------------------------------
(* 4. AI Chat API: the task registry *)

ChartKeywords == << <<"t", "r", "e", "n", "d">>, <<"U+8DA8", "U+52E2">>, <<"U+5716">>,
                    <<"c", "h", "a", "r", "t">>, <<"s", "a", "l", "e", "s">> >>
MapKeywords   == << <<"m", "a", "p">>, <<"U+5730", "U+5716">>, <<"U+5206", "U+4F48">>,
                    <<"d", "i", "s", "t", "r", "i", "b", "u", "t", "i", "o", "n">> >>
RagKeywords   == << <<"p", "o", "l", "i", "c", "y">>, <<"d", "o", "c", "u", "m", "e", "n", "t">>,
                    <<"U+898F", "U+5B9A">>, <<"U+6587", "U+4EF6">>, <<"r", "a", "g">>,
                    <<"s", "e", "a", "r", "c", "h">> >>

RECURSIVE AnyIn(_, _)
\* any(k in text for k in keywords)
AnyIn(keywords, text) ==
    IF keywords = <<>> THEN FALSE
    ELSE IF In(Head(keywords), text) THEN TRUE
    ELSE AnyIn(Tail(keywords), text)

\* the intent with the map keywords looked at before the chart keywords
TaskTypeMapFirst(prompt) ==
    LET want_chart == AnyIn(ChartKeywords, Lower(prompt))
        want_map   == AnyIn(MapKeywords, Lower(prompt))
        want_rag   == AnyIn(RagKeywords, Lower(prompt))
    IN  IF want_map THEN "map"
        ELSE IF want_chart THEN "chart"
        ELSE IF want_rag THEN "rag"
        ELSE "general"

\* the intent with the knowledge-base search as the fallback
TaskTypeRagFallback(prompt) ==
    LET want_chart == AnyIn(ChartKeywords, Lower(prompt))
        want_map   == AnyIn(MapKeywords, Lower(prompt))
    IN  IF want_chart THEN "chart"
        ELSE IF want_map THEN "map"
        ELSE "rag"

\* the intent chosen by submit_chat_request
TaskType(prompt) ==
    LET want_chart == AnyIn(ChartKeywords, Lower(prompt))
        want_map   == AnyIn(MapKeywords, Lower(prompt))
        want_rag   == AnyIn(RagKeywords, Lower(prompt))
    IN  IF want_chart THEN "chart"
        ELSE IF want_map THEN "map"
        ELSE IF want_rag THEN "rag"
        ELSE "general"

\* the status sequence of each intent: (icon, message, delay)
StepsFor(task_type) ==
    IF task_type = "chart" THEN
        << <<"U+1F9E0", "Understanding your question...", 300>>,
           <<"U+1F527", "Translating to Data API query...", 400>>,
           <<"U+1F5C4 U+FE0F", "Fetching data from Cache/DB [POST /v1/data/fetch]...", 800>>,
           <<"U+1F3A8", "Rendering Stateless Chart [POST /v1/charts/generate]...", 200>>,
           <<"U+1F9E0", "Requesting Chart Insight [Caching enabled]...", 500>> >>
    ELSE IF task_type = "map" THEN
        << <<"U+1F9E0", "Understanding location intent...", 300>>,
           <<"U+1F527", "Translating to Data API query...", 400>>,
           <<"U+1F5C4 U+FE0F", "Fetching data from Cache/DB [POST /v1/data/fetch]...", 800>>,
           <<"U+1F3A8", "Rendering Stateless Map [POST /v1/charts/generate]...", 200>>,
           <<"U+1F9E0", "Requesting Map Insight [Caching enabled]...", 500>> >>
    ELSE IF task_type = "rag" THEN
        << <<"U+1F9E0", "Analyzing query for search intent...", 400>>,
           <<"U+1F5C4 U+FE0F", "Embedding query and searching Vector DB...", 1200>>,
           <<"U+1F4C4", "Retrieving relevant document chunks...", 300>>,
           <<"U+1F9E0", "Synthesizing answer from sources...", 1500>> >>
    ELSE
        << <<"U+1F9E0", "Searching knowledge base...", 500>>,
           <<"U+1F916", "Routing to general-answer sub-agent", 600>> >>

\* submit_chat_request that files every task under the first identifier
submit_chat_request_reuse(tasks, prompt, request_id, now) ==
    LET task_type == TaskType(prompt)
        task == [ status |-> "pending",
                  step_index |-> 0,
                  type |-> task_type,
                  prompt |-> prompt,
                  created_at |-> now,
                  steps |-> StepsFor(task_type),
                  final_result |-> None ]
    IN  [ tasks |-> [k \in DOMAIN tasks \cup {1} |-> IF k = 1 THEN task ELSE tasks[k]],
          ret |-> 1 ]

\* submit_chat_request: the registry with the new task under request_id (the
\* fresh identifier uuid4 produced); now is the reading of time.time()
submit_chat_request(tasks, prompt, request_id, now) ==
    LET task_type == TaskType(prompt)
        task == [ status |-> "pending",
                  step_index |-> 0,
                  type |-> task_type,
                  prompt |-> prompt,
                  created_at |-> now,
                  steps |-> StepsFor(task_type),
                  final_result |-> None ]
    IN  [ tasks |-> [k \in DOMAIN tasks \cup {request_id} |->
                        IF k = request_id THEN task ELSE tasks[k]],
          ret |-> request_id ]

\* the literal keys _generate_final_result looks up in _DATA_CACHE
SalesLiteralKey ==
    <<"s", "a", "l", "e", "s", "_", "t", "a", "b", "l", "e", "|", "D", "a", "t", "e", "-",
      "P", "r", "o", "d", "u", "c", "t", " ", "A", "-", "P", "r", "o", "d", "u", "c", "t", " ", "B", "-",
      "P", "r", "o", "d", "u", "c", "t", " ", "C", "|", "N", "o", "n", "e", "|", "N", "o", "n", "e", "|",
      "N", "o", "n", "e">>
GeoLiteralKey ==
    <<"u", "s", "e", "r", "_", "g", "e", "o", "_", "t", "a", "b", "l", "e", "|", "l", "a", "t", "-",
      "l", "o", "n", "|", "N", "o", "n", "e", "|", "N", "o", "n", "e", "|", "N", "o", "n", "e">>

\* `df is not _DATA_CACHE.get(literal_key)`, df being what the fetch f returned
IsNotCached(f, literal_key) ==
    ~(literal_key \in DOMAIN f.cache /\ f.key = literal_key /\ f.is_entry)

\* an insight key: the prefix followed by the decimal of id(df), or (id 0) a
\* literal key
InsightKey(prefix, id) == [prefix |-> prefix, id |-> id]

ChartTrace ==
    << [type |-> "llm_call",  label |-> "Intent detection", duration_ms |-> 310],
       [type |-> "tool_call", label |-> "fetch_data()", duration_ms |-> 850,
        detail |-> "Called POST /v1/data/fetch"],
       [type |-> "tool_call", label |-> "generate_universal_chart()", duration_ms |-> 120,
        detail |-> "Stateless rendering"],
       [type |-> "llm_call",  label |-> "generate_chart_insight()", duration_ms |-> 940,
        detail |-> "Insight Generation (Cached)"] >>
MapTrace ==
    << [type |-> "llm_call",  label |-> "Intent detection", duration_ms |-> 295],
       [type |-> "tool_call", label |-> "fetch_data()", duration_ms |-> 750,
        detail |-> "Called POST /v1/data/fetch"],
       [type |-> "tool_call", label |-> "generate_universal_chart()", duration_ms |-> 100,
        detail |-> "Stateless rendering"],
       [type |-> "llm_call",  label |-> "generate_chart_insight()", duration_ms |-> 810,
        detail |-> "Insight Generation (Cached)"] >>
RagTrace ==
    << [type |-> "llm_call",  label |-> "Intent detection (RAG)", duration_ms |-> 210],
       [type |-> "tool_call", label |-> "vector_search()", duration_ms |-> 1150,
        detail |-> "Found 2 relevant chunks"],
       [type |-> "llm_call",  label |-> "Answer Synthesis", duration_ms |-> 1850,
        detail |-> "Generated using retrieved context"] >>
GeneralTrace ==
    << [type |-> "llm_call",  label |-> "Intent detection", duration_ms |-> 280],
       [type |-> "sub_agent", label |-> "General-answer sub-agent", duration_ms |-> 610] >>

\* the reference list cut to its first source
RagSourcesFirstOnly ==
    << [ title |-> "2025 Employee Handbook (v2.1)",
         url |-> "https://wiki.example.com/handbook",
         snippet |-> "...core hours for all employees are 10:00 AM to 3:00 PM local time..." ] >>

RagSources ==
    << [ title |-> "2025 Employee Handbook (v2.1)",
         url |-> "https://wiki.example.com/handbook",
         snippet |-> "...core hours for all employees are 10:00 AM to 3:00 PM local time..." ],
       [ title |-> "Remote Work Policy",
         url |-> "https://wiki.example.com/remote-policy",
         snippet |-> "...up to 3 days of remote work per week may be granted subject to manager approval..." ] >>

TextBlock(content) == [type |-> "text", content |-> content]

\* the arguments _generate_final_result passes to fetch_data,
\* generate_universal_chart and generate_chart_insight for a chart and for a
\* map task
ChatPipeline(t_type) ==
    IF t_type = "chart"
    THEN [ source |-> SalesTable, columns |-> Some(<<Date, ProductA, ProductB, ProductC>>),
           chart_type |-> "line",
           config |-> [ title |-> "U+1F4C8 30-Day Sales Trend", x |-> Date,
                        y |-> <<ProductA, ProductB, ProductC>> ],
           literal_key |-> SalesLiteralKey,
           prefix |-> "sales_insight_", cached |-> "sales_insight_cached" ]
    ELSE [ source |-> UserGeoTable, columns |-> Some(<<Lat, Lon>>),
           chart_type |-> "map",
           config |-> [ title |-> "U+1F5FA U+FE0F User Geographic Distribution",
                        lat |-> Lat, lon |-> Lon ],
           literal_key |-> GeoLiteralKey,
           prefix |-> "geo_insight_", cached |-> "geo_insight_cached" ]

\* the insight key _generate_final_result builds for the DataFrame the fetch f
\* returned, addr being id(df)
ChatInsightKey(t_type, f, addr) ==
    IF IsNotCached(f, ChatPipeline(t_type).literal_key)
    THEN InsightKey(ChatPipeline(t_type).prefix, addr)
    ELSE InsightKey(ChatPipeline(t_type).cached, 0)

\* the dict _generate_final_result stores: the blocks and the trace of the
\* task's intent; spec and insight are those of the chart of a chart or map
\* task
ResultFor(task, spec, insight) ==
    LET t_type == task.type
        prompt == task.prompt
    IN  IF t_type = "chart" THEN
            [ blocks |->
                << TextBlock(<<"Here is the product trend analysis for your query: *'",
                               prompt, "'*">>),
                   [type |-> "plotly", spec |-> spec, insight |-> insight],
                   TextBlock(<<"Notice how fast it loads if you ask again (Data & Insight Cache Hit)!">>) >>,
              trace |-> ChartTrace ]
        ELSE IF t_type = "map" THEN
            [ blocks |->
                << TextBlock(<<"Here is the user geographic distribution for: *'",
                               prompt, "'*">>),
                   [type |-> "plotly", spec |-> spec, insight |-> insight] >>,
              trace |-> MapTrace ]
        ELSE IF t_type = "rag" THEN
            [ blocks |->
                << TextBlock(<<"Based on the internal knowledge base, here is the information regarding: *'",
                               prompt, "'*">>),
                   TextBlock(<<"According to the **2025 Employee Handbook** and the **Remote Work Policy**, employees are allowed up to 3 days of remote work per week with manager approval. Core hours are 10 AM to 3 PM.">>),
                   [type |-> "reference", sources |-> RagSources] >>,
              trace |-> RagTrace ]
        ELSE
            [ blocks |->
                << TextBlock(<<"I received your message: *'", prompt, "'*.">>),
                   TextBlock(<<"Try asking about **product trends** or **user distribution map** to see the caching API in action.">>) >>,
              trace |-> GeneralTrace ]

\* _generate_final_result run with no other call in between: the result built
\* for the task, the stores it leaves behind, and the calls it made, in order.
\* roll is the draw of the check_for_updates inside fetch_data, addr the
\* address id(df).
FinalResult(task, d, dcache, icache, roll, addr) ==
    IF task.type \in {"chart", "map"} THEN
        LET p == ChatPipeline(task.type)
            f == fetch_data(d, dcache, p.source, p.columns, None, None, None, roll)
            chart_res == generate_universal_chart(p.chart_type, f.ret, p.config)
            ins == generate_chart_insight(icache, ChatInsightKey(task.type, f, addr),
                                          p.chart_type)
        IN  [ db |-> f.db, dcache |-> f.cache, icache |-> ins.cache,
              result |-> ResultFor(task, chart_res.spec, ins.ret),
              calls |-> << [fn |-> "fetch_data", path |-> f.path],
                           [fn |-> "generate_universal_chart", path |-> "none"],
                           [fn |-> "generate_chart_insight", path |-> ins.path] >> ]
    ELSE
        [ db |-> d, dcache |-> dcache, icache |-> icache,
          result |-> ResultFor(task, <<>>, ""),
          calls |-> <<>> ]

\* _generate_final_result(request_id), run with no other call in between: the
\* registry with the task's final_result set, the stores, the calls made, and
\* the mark that it ran
generate_final_result(tasks, d, dcache, icache, request_id, roll, addr) ==
    LET r == FinalResult(tasks[request_id], d, dcache, icache, roll, addr)
    IN  [ tasks |-> [tasks EXCEPT ![request_id].final_result = r.result],
          db |-> r.db, dcache |-> r.dcache, icache |-> r.icache, calls |-> r.calls,
          synthesized |-> TRUE ]

\* a finished task answered with the label of its last step
StatusDoneAsStep == [status |-> "processing", message |-> <<"Done">>]
StatusDone == [status |-> "complete", message |-> <<"Done">>]
\* an unknown id answered like a finished task
StatusInvalidAsDone == [status |-> "complete", message |-> <<"Done">>]
StatusInvalid == [status |-> "error", message |-> <<"Invalid request ID">>]
ErrorInvalid == [error |-> "Invalid request ID"]
ErrorNotComplete == [error |-> "Task not complete yet"]

\* the plan counted as exhausted one step late
PlanExhaustedLate(task) == task.step_index > Len(task.steps)
\* the plan counted as exhausted one step early
PlanExhaustedEarly(task) == task.step_index + 1 >= Len(task.steps)
\* the plan counted as exhausted from the first step on
PlanExhaustedAlways(task) == task.step_index >= 1
\* `task["step_index"] >= len(task["steps"])`: the last step was just finished
PlanExhausted(task) == task.step_index >= Len(task.steps)

\* the dict poll_chat_status returns for the step it has just waited for
ProgressReply(step) == [status |-> "processing", message |-> <<step[1], " ", step[2]>>]

\* get_chat_result that never finds a task ready
get_chat_result_never_ready(tasks, request_id) ==
    IF request_id \notin DOMAIN tasks THEN ErrorInvalid
    ELSE ErrorNotComplete

\* get_chat_result: what the call returns; it writes nothing
get_chat_result(tasks, request_id) ==
    IF request_id \notin DOMAIN tasks THEN ErrorInvalid
    ELSE IF tasks[request_id].status # "complete" THEN ErrorNotComplete
    ELSE tasks[request_id].final_result

----------------------------------------------------------------------------
(* Inputs of the model *)

\* prompts submitted to the task registry
Prompts ==
    { <<"S", "h", "o", "w", " ", "t", "h", "i", "s", " ", "w", "e", "e", "k", "'", "s", " ",
        "p", "r", "o", "d", "u", "c", "t", " ", "t", "r", "e", "n", "d", "s">>,
      <<"s", "a", "l", "e", "s", " ", "m", "a", "p">>,
      <<"M", "A", "P", " ", "o", "f", " ", "u", "s", "e", "r", "s">>,
      <<"p", "o", "l", "i", "c", "y">>,
      <<"h", "e", "l", "l", "o">> }

\* pieces the prompts of the classification check are concatenated from
Fragments ==
    { <<"t", "r", "e", "n", "d">>, <<"C", "h", "a", "r", "t">>, <<"U+5716">>,
      <<"m", "a">>, <<"p">>, <<"U+5730">>, <<"D", "i", "s", "t", "r", "i", "b", "u", "t", "i", "o", "n">>,
      <<"U+5206", "U+4F48">>, <<"p", "o", "l", "i", "c", "y">>, <<"s", "t", "o", "r", "a", "g", "e">>,
      <<"U+6587", "U+4EF6">>, <<"h", "e", "l", "l", "o", " ">> }

\* the concatenations of at most n fragments
RECURSIVE Concats(_)
Concats(n) ==
    IF n = 0 THEN { <<>> }
    ELSE Concats(n - 1) \cup { a \o b : a \in Concats(n - 1), b \in Fragments }

ClassifyPrompts == Concats(MaxFrags)

\* request ids a caller may present: those issued, and one never issued
RequestIds == 1..(MaxTasks + 1)

\* addresses id(df) may return
Addrs == 1..MaxAddr

----------------------------------------------------------------------------
(* The state machine *)

\* A call that waits (time.sleep) is made of several steps, one up to each
\* wait, and other callers' steps fall in between: the callers run in threads
\* (one per browser session) over the same module globals.  threads[t] is the
\* position of thread t inside its call, with the call's local variables.
Threads == 1..MaxThreads
Idle == [pc |-> "idle", idx |-> 0, tmp |-> 0]
NoClient == [pc |-> "idle", request_id |-> 0, yielded |-> <<>>]

\* what the history records for a step in which no call returns
Step(t) == [op |-> "step", id |-> 0, thread |-> t]

\* no call is under way
Quiet == \A t \in Threads : threads[t].pc = "idle"

\* the thread a new call runs in: which thread runs a call makes no
\* difference to the call, so a call is given the first thread that is free
Free(t) ==
    /\ threads[t].pc = "idle"
    /\ \A u \in Threads : u < t => threads[u].pc # "idle"

\* the history keeps one earlier call for later calls to be compared with
Keeps(keep) == keep => ~watch.set

Init ==
    /\ db = GenerateData(0)
    /\ DATA_CACHE = <<>>
    /\ INSIGHT_CACHE = <<>>
    /\ CHAT_TASKS = <<>>
    /\ last = [op |-> "none", id |-> 0]
    /\ polls = <<>>
    /\ watch = [set |-> FALSE]
    /\ client = [t \in Threads |-> NoClient]
    /\ heap = <<>>
    /\ threads = [t \in Threads |-> Idle]
    /\ made = 0

\* a caller submits a prompt; uuid4 yields an identifier never issued before
Submit(prompt) ==
    LET request_id == Cardinality(DOMAIN CHAT_TASKS) + 1
        r == submit_chat_request(CHAT_TASKS, prompt, request_id, request_id)
    IN  /\ CHAT_TASKS' = r.tasks
        /\ polls' = [k \in DOMAIN polls \cup {request_id} |->
                        IF k = request_id THEN 0 ELSE polls[k]]
        /\ last' = [op |-> "submit", id |-> r.ret, prompt |-> prompt]
        /\ UNCHANGED <<db, DATA_CACHE, INSIGHT_CACHE, watch, client, heap, made, threads>>

\* poll_chat_status returns ret to thread t (line 243, 247, 262 or 264).  When
\* the caller is the generator _simulate_llm_response (app.py, lines 411-415)
\* it leaves its loop on 'complete' and yields the message otherwise.
PollReturn(t, request_id, ret, calls, synthesized) ==
    /\ threads' = [threads EXCEPT ![t] = Idle]
    /\ last' = [ op |-> "poll", id |-> request_id, thread |-> t, ret |-> ret,
                 calls |-> calls, synthesized |-> synthesized ]
    /\ client' = IF client[t].pc = "poll" /\ client[t].request_id = request_id
                 THEN IF ret.status = "complete"
                      THEN [client EXCEPT ![t].pc = "result"]
                      ELSE [client EXCEPT ![t].yielded = Append(@, [str |-> ret.message])]
                 ELSE client

\* a task may be polled until it has been polled extra times more than its
\* plan has steps
PollsLeft(request_id, extra) ==
    request_id \in DOMAIN CHAT_TASKS =>
        polls[request_id] < Len(CHAT_TASKS[request_id].steps) + extra

\* thread t calls poll_chat_status on a request id, issued or not (lines
\* 241-254): an unknown id and a finished task are answered at once; otherwise
\* the cursor is read and the thread sleeps for the step
Poll(t, request_id) ==
    /\ threads[t].pc = "idle"
    /\ polls' = IF request_id \in DOMAIN polls
                THEN [polls EXCEPT ![request_id] = @ + 1]
                ELSE polls
    /\ IF request_id \notin DOMAIN CHAT_TASKS
       THEN PollReturn(t, request_id, StatusInvalid, <<>>, FALSE)
       ELSE IF CHAT_TASKS[request_id].status = "complete"
       THEN PollReturn(t, request_id, StatusDone, <<>>, FALSE)
       ELSE IF CHAT_TASKS[request_id].step_index < Len(CHAT_TASKS[request_id].steps)
       THEN /\ threads' = [threads EXCEPT ![t] =
                              [ pc |-> "poll", fn |-> "poll", id |-> request_id,
                                idx |-> CHAT_TASKS[request_id].step_index ]]
            /\ last' = Step(t)
            /\ UNCHANGED client
       ELSE PollReturn(t, request_id, StatusDone, <<>>, FALSE)
    /\ UNCHANGED <<db, DATA_CACHE, INSIGHT_CACHE, CHAT_TASKS, watch, heap, made>>

\* the locals of a thread that is inside fetch_data on behalf of
\* _generate_final_result (fn "poll") or of render_dashboard (fn "render"); b
\* is what fetch_data decided before it went to sleep
PipeThread(fn, id, idx, stage, toast, trend, keep, b) ==
    [ pc |-> "pipe_fetch", fn |-> fn, id |-> id, idx |-> idx, stage |-> stage,
      toast |-> toast, trend |-> trend, keep |-> keep,
      key |-> b.key, path |-> b.path,
      calls |-> << [fn |-> "fetch_data", path |-> b.path] >>,
      df |-> <<>>, gen |-> 0, ikey |-> InsightKey("", 0) ]

\* thread t wakes up in poll_chat_status (lines 255-262): the cursor is
\* advanced; if steps are left the label of the step read before the sleep is
\* returned; if not the task is marked complete and _generate_final_result
\* runs, to its end for a general or knowledge task, and for a chart or map
\* task up to the sleep inside fetch_data.  keep says whether the history
\* keeps this run of the pipeline as the earlier run later ones are compared
\* with.
PollWake(t, roll, keep) ==
    /\ threads[t].pc = "poll"
    /\ roll => db._last_update_time < MaxGen
    /\ \E th \in {threads[t]} :
       \E advanced \in {[CHAT_TASKS EXCEPT ![th.id].step_index = @ + 1]} :
       \E reply \in {ProgressReply(CHAT_TASKS[th.id].steps[th.idx + 1])} :
          IF ~PlanExhausted(advanced[th.id])
          THEN /\ ~roll /\ ~keep
               /\ CHAT_TASKS' = advanced
               /\ PollReturn(t, th.id, reply, <<>>, FALSE)
               /\ UNCHANGED <<db, DATA_CACHE, INSIGHT_CACHE, watch>>
          ELSE \E marked \in {[advanced EXCEPT ![th.id].status = "complete"]} :
               IF marked[th.id].type \in {"chart", "map"}
               THEN \E p \in {ChatPipeline(marked[th.id].type)} :
                    \E b \in {fetch_data_begin(db, DATA_CACHE, p.source, p.columns,
                                               None, None, None, roll)} :
                       /\ CHAT_TASKS' = marked
                       /\ db' = b.db
                       /\ threads' = [threads EXCEPT ![t] =
                                         PipeThread("poll", th.id, th.idx, 0, FALSE, <<>>,
                                                    keep, b)]
                       /\ last' = Step(t)
                       /\ UNCHANGED <<DATA_CACHE, INSIGHT_CACHE, watch, client>>
               ELSE /\ ~roll /\ ~keep
                    /\ CHAT_TASKS' = generate_final_result(marked, db, DATA_CACHE,
                                                           INSIGHT_CACHE, th.id, FALSE, 1).tasks
                    /\ PollReturn(t, th.id, reply, <<>>, TRUE)
                    /\ UNCHANGED <<db, DATA_CACHE, INSIGHT_CACHE, watch>>
    /\ UNCHANGED <<polls, heap, made>>

\* the two panels of render_dashboard (app.py, lines 224-244 and 263-278): the
\* arguments it passes to fetch_data, generate_universal_chart and
\* generate_chart_insight
DashPipeline(stage) ==
    IF stage = 1
    THEN [ source |-> SalesTable, columns |-> Some(<<Date, ProductA, ProductB, ProductC>>),
           chart_type |-> "line",
           config |-> [title |-> "", x |-> Date, y |-> <<ProductA, ProductB, ProductC>>],
           prefix |-> "dash_sales_insight_" ]
    ELSE [ source |-> UserGeoTable, columns |-> Some(<<Lat, Lon>>),
           chart_type |-> "map",
           config |-> [title |-> "", lat |-> Lat, lon |-> Lon],
           prefix |-> "dash_geo_insight_" ]

\* the pipeline the thread with locals th is running
PipeOf(th) ==
    IF th.fn = "poll" THEN ChatPipeline(CHAT_TASKS[th.id].type) ELSE DashPipeline(th.stage)

\* the insight key built for the DataFrame the thread holds, addr being id(df)
PipeInsightKey(th, addr) ==
    IF th.fn = "poll"
    THEN ChatInsightKey(CHAT_TASKS[th.id].type,
                        [cache |-> DATA_CACHE, key |-> th.key, is_entry |-> FALSE], addr)
    ELSE InsightKey(DashPipeline(th.stage).prefix, addr)

\* thread t wakes up in fetch_data (line 80, or lines 85-100), which returns;
\* generate_universal_chart is called and sleeps (line 115)
PipeFetched(t) ==
    /\ threads[t].pc = "pipe_fetch"
    /\ \E th \in {threads[t]} :
       \E p \in {PipeOf(th)} :
       \E e \in {fetch_data_end(db, DATA_CACHE, p.source, p.columns, th.key, th.path)} :
          /\ DATA_CACHE' = e.cache
          /\ threads' = [threads EXCEPT ![t] =
                            [th EXCEPT !.pc = "pipe_chart", !.df = e.ret,
                                       !.gen = db._last_update_time]]
          /\ last' = Step(t)
    /\ UNCHANGED <<db, INSIGHT_CACHE, CHAT_TASKS, polls, watch, client, heap, made>>

\* the pipeline of thread t has the chart spec and the insight: the chat task
\* gets its final result (mock_api.py, line 391) and the poll returns the label
\* of the step it read before its first sleep; render_dashboard goes on to its
\* second panel, or returns
PipeDone(t, th, spec, insight, ipath) ==
    IF th.fn = "poll"
    THEN \E calls \in {th.calls \o << [fn |-> "generate_universal_chart", path |-> "none"],
                                     [fn |-> "generate_chart_insight", path |-> ipath] >>} :
            /\ CHAT_TASKS' = [CHAT_TASKS EXCEPT ![th.id].final_result =
                                 ResultFor(CHAT_TASKS[th.id], spec, insight)]
            /\ PollReturn(t, th.id, ProgressReply(CHAT_TASKS[th.id].steps[th.idx + 1]),
                          calls, TRUE)
            /\ watch' = IF th.keep
                        THEN [ set |-> TRUE, prompt |-> CHAT_TASKS[th.id].prompt,
                               gen |-> db._last_update_time, calls |-> calls ]
                        ELSE watch
    ELSE \E panel \in {[ ret |-> th.df, path |-> th.path, gen |-> th.gen,
                         fig |-> spec, insight |-> insight ]} :
            /\ IF th.stage = 1
               THEN /\ threads' = [threads EXCEPT ![t] =
                                      [ pc |-> "render", fn |-> "render", stage |-> 2,
                                        toast |-> th.toast, trend |-> panel ]]
                    /\ last' = Step(t)
               ELSE /\ threads' = [threads EXCEPT ![t] = Idle]
                    /\ last' = [ op |-> "dashboard", id |-> 0, thread |-> t,
                                 toast |-> th.toast, trend |-> th.trend, geo |-> panel ]
            /\ UNCHANGED <<CHAT_TASKS, watch, client>>

\* thread t wakes up in generate_universal_chart (line 115), which draws the
\* chart; the insight key is built and generate_chart_insight looks it up
\* (lines 159-161): on a hit it returns, on a miss it sleeps (line 164)
PipeChart(t, addr) ==
    /\ threads[t].pc = "pipe_chart"
    /\ \E th \in {threads[t]} :
       \E p \in {PipeOf(th)} :
       \E chart_res \in {generate_universal_chart(p.chart_type, th.df, p.config)} :
       \E insight_key \in {PipeInsightKey(th, addr)} :
       \E l \in {insight_lookup(INSIGHT_CACHE, insight_key)} :
          IF l.path = "hit"
          THEN PipeDone(t, th, chart_res.spec, l.ret, "hit")
          ELSE /\ threads' = [threads EXCEPT ![t] =
                                 [th EXCEPT !.pc = "pipe_insight", !.ikey = insight_key]]
               /\ last' = Step(t)
               /\ UNCHANGED <<CHAT_TASKS, watch, client>>
    /\ UNCHANGED <<db, DATA_CACHE, INSIGHT_CACHE, polls, heap, made>>

\* thread t wakes up in generate_chart_insight (lines 166-174): the insight is
\* generated, stored and returned
PipeInsight(t) ==
    /\ threads[t].pc = "pipe_insight"
    /\ \E th \in {threads[t]} :
       \E p \in {PipeOf(th)} :
       \E chart_res \in {generate_universal_chart(p.chart_type, th.df, p.config)} :
       \E r \in {insight_generate(INSIGHT_CACHE, th.ikey, p.chart_type)} :
          /\ INSIGHT_CACHE' = r.cache
          /\ PipeDone(t, th, chart_res.spec, r.ret, "miss")
    /\ UNCHANGED <<db, DATA_CACHE, polls, heap, made>>

\* a caller asks for the result of a request id, issued or not
GetResult(request_id) ==
    /\ last' = [op |-> "result", id |-> request_id,
                ret |-> get_chat_result(CHAT_TASKS, request_id)]
    /\ UNCHANGED <<db, DATA_CACHE, INSIGHT_CACHE, CHAT_TASKS, polls, watch, client, heap, made, threads>>

\* does the poll thread t is in reach fetch_data when it wakes up, where the
\* Data Store draws its random number
ReachesPipeline(t) ==
    /\ threads[t].pc = "poll"
    /\ CHAT_TASKS[threads[t].id].step_index + 1 >= Len(CHAT_TASKS[threads[t].id].steps)
    /\ CHAT_TASKS[threads[t].id].type \in {"chart", "map"}

\* the draws of a poll that wakes up: none (written FALSE) when it does not
\* reach fetch_data
WakeDraws(t) == IF ReachesPipeline(t) THEN BOOLEAN ELSE {FALSE}

Next ==
    \/ \E prompt \in Prompts :
          Cardinality(DOMAIN CHAT_TASKS) < MaxTasks /\ Submit(prompt)
    \/ \E t \in Threads, request_id \in RequestIds :
          Free(t) /\ PollsLeft(request_id, MaxExtraPolls) /\ Poll(t, request_id)
    \/ \E t \in Threads : \E roll \in WakeDraws(t) : PollWake(t, roll, FALSE)
    \/ \E t \in Threads : PipeFetched(t)
    \/ \E t \in Threads, addr \in Addrs : PipeChart(t, addr)
    \/ \E t \in Threads : PipeInsight(t)
    \/ \E request_id \in RequestIds : GetResult(request_id)

Spec == Init /\ [][Next]_vars

\* a name that is neither a table nor a column of the Data Store
UnknownTable == <<"u", "n", "k", "n", "o", "w", "n", "_", "t", "a", "b", "l", "e">>
Price        == <<"P", "r", "i", "c", "e">>

\* the fetch_data requests callers make: (source, columns, filters); groupby
\* and aggregation are left None
FetchRequests ==
    { [ source |-> SalesTable, columns |-> Some(<<ProductB, Price, Date>>),
        filters |-> Some(<< <<"x">> >>) ],
      [ source |-> SalesTable, columns |-> Some(<<Price>>), filters |-> None ],
      [ source |-> UserGeoTable, columns |-> None, filters |-> None ],
      [ source |-> UnknownTable, columns |-> Some(<<Date>>), filters |-> None ] }

\* thread t calls fetch_data (lines 73-83): the key is built, the Data Store
\* asked, the path decided, and the thread sleeps.  keep says whether the
\* history keeps this call as the earlier call later ones are compared with.
FetchCall(t, req, groupby, aggregation, roll, keep) ==
    /\ threads[t].pc = "idle"
    /\ made < MaxFetches
    /\ made' = made + 1
    /\ roll => db._last_update_time < MaxGen
    /\ \E b \in {fetch_data_begin(db, DATA_CACHE, req.source, req.columns, req.filters,
                                  groupby, aggregation, roll)} :
          /\ db' = b.db
          /\ threads' = [threads EXCEPT ![t] =
                            [ pc |-> "fetch", fn |-> "fetch", args |-> req,
                              key |-> b.key, path |-> b.path, keep |-> keep ]]
    /\ last' = Step(t)
    /\ UNCHANGED <<DATA_CACHE, INSIGHT_CACHE, CHAT_TASKS, polls, watch, client, heap>>

\* a caller fetches data, leaving groupby and aggregation out
FetchData(t, req, roll, keep) == FetchCall(t, req, None, None, roll, keep)

\* thread t wakes up in fetch_data: the entry is read from the cache (line
\* 80), or the table is read, projected and cached (lines 85-100); the call
\* returns
FetchReturn(t) ==
    /\ threads[t].pc = "fetch"
    /\ \E th \in {threads[t]} :
       \E e \in {fetch_data_end(db, DATA_CACHE, th.args.source, th.args.columns,
                                th.key, th.path)} :
          /\ DATA_CACHE' = e.cache
          /\ last' = [ op |-> "fetch", id |-> 0, thread |-> t, args |-> th.args,
                       ret |-> e.ret, path |-> th.path, key |-> th.key ]
          /\ watch' = IF th.keep
                      THEN [ set |-> TRUE, args |-> th.args, ret |-> e.ret,
                             path |-> th.path, key |-> th.key,
                             gen |-> db._last_update_time ]
                      ELSE watch
    /\ threads' = [threads EXCEPT ![t] = Idle]
    /\ UNCHANGED <<db, INSIGHT_CACHE, CHAT_TASKS, polls, client, heap, made>>

NextData ==
    \/ \E t \in Threads, req \in FetchRequests, roll \in BOOLEAN, keep \in BOOLEAN :
          Free(t) /\ Keeps(keep) /\ FetchData(t, req, roll, keep)
    \/ \E t \in Threads : FetchReturn(t)

SpecData == Init /\ [][NextData]_vars

\* thread t runs render_dashboard (app.py): the page asks the Data Store
\* whether it changed (line 207) and draws its first widgets
RenderDashboard(t, roll0) ==
    /\ threads[t].pc = "idle"
    /\ made < MaxRenders
    /\ made' = made + 1
    /\ roll0 => db._last_update_time < MaxGen
    /\ \E upd \in {check_for_updates(db, roll0)} :
          /\ db' = upd.db
          /\ threads' = [threads EXCEPT ![t] =
                            [ pc |-> "render", fn |-> "render", stage |-> 1,
                              toast |-> upd.ret, trend |-> <<>> ]]
    /\ last' = Step(t)
    /\ UNCHANGED <<DATA_CACHE, INSIGHT_CACHE, CHAT_TASKS, polls, watch, client, heap>>

\* render_dashboard calls fetch_data for its next panel (app.py, lines 224 and
\* 263), which sleeps
RenderFetch(t, roll) ==
    /\ threads[t].pc = "render"
    /\ roll => db._last_update_time < MaxGen
    /\ \E th \in {threads[t]} :
       \E p \in {DashPipeline(th.stage)} :
       \E b \in {fetch_data_begin(db, DATA_CACHE, p.source, p.columns, None, None, None, roll)} :
          /\ db' = b.db
          /\ threads' = [threads EXCEPT ![t] =
                            PipeThread("render", 0, 0, th.stage, th.toast, th.trend, FALSE, b)]
    /\ last' = Step(t)
    /\ UNCHANGED <<DATA_CACHE, INSIGHT_CACHE, CHAT_TASKS, polls, watch, client, heap, made>>

NextDashboard ==
    \/ \E t \in Threads, roll0 \in BOOLEAN : Free(t) /\ RenderDashboard(t, roll0)
    \/ \E t \in Threads, roll \in BOOLEAN : RenderFetch(t, roll)
    \/ \E t \in Threads : PipeFetched(t)
    \/ \E t \in Threads, addr \in Addrs : PipeChart(t, addr)
    \/ \E t \in Threads : PipeInsight(t)

SpecDashboard == Init /\ [][NextDashboard]_vars

\* chart types, DataFrames and configs handed to the chart generator
ChartTypes == {"line", "map", "bar", ""}

ChartFrames ==
    { get_sales_data(GenerateData(0)),
      get_geo_data(GenerateData(0)),
      EmptyFrame,
      << Column(Date, 0), Column(ProductA, 0) >>,
      << Column(ProductB, 0) >>,
      << Column(Lat, 0) >> }

\* a config dict: an option that is None is a key the dict does not have
Config(title, x, y, lat, lon) ==
    LET given == [title |-> title, x |-> x, y |-> y, lat |-> lat, lon |-> lon]
    IN  [k \in {f \in DOMAIN given : ~IsNone(given[f])} |-> given[k].list]

ChartConfigs ==
    { Config(title, x, y, lat, lon) :
        title \in {None, Some("Weekly")},
        x \in {None, Some(Date), Some(Price)},
        y \in {None, Some(<<>>), Some(<<ProductA>>), Some(<<ProductA, Price, ProductB>>)},
        lat \in {None, Some(Lat), Some(Price)},
        lon \in {None, Some(Lon)} }

\* The chart check: a request for a chart is drawn, and the generator answers it.
InitChart ==
    /\ db = GenerateData(0)
    /\ DATA_CACHE = <<>>
    /\ INSIGHT_CACHE = <<>>
    /\ CHAT_TASKS = <<>>
    /\ polls = <<>>
    /\ watch = [set |-> FALSE]
    /\ client = [t \in Threads |-> NoClient]
    /\ heap = <<>>
    /\ threads = [t \in Threads |-> Idle]
    /\ made = 0
    /\ \E chart_type \in ChartTypes, data \in ChartFrames, config \in ChartConfigs :
          last = [ op |-> "chart_request", id |-> 0, chart_type |-> chart_type,
                   data |-> data, config |-> config ]

GenerateChart ==
    /\ last.op = "chart_request"
    /\ last' = [ op |-> "chart", id |-> 0, chart_type |-> last.chart_type,
                 data |-> last.data, config |-> last.config,
                 ret |-> generate_universal_chart(last.chart_type, last.data, last.config) ]
    /\ UNCHANGED <<db, DATA_CACHE, INSIGHT_CACHE, CHAT_TASKS, polls, watch, client, heap, made, threads>>

NextChart == GenerateChart

SpecChart == InitChart /\ [][NextChart]_vars

\* The classification check: one prompt built from fragments is submitted to
\* an empty registry, and may then be submitted once more.
Resubmit ==
    /\ Cardinality(DOMAIN CHAT_TASKS) = 1
    /\ Submit(CHAT_TASKS[1].prompt)

NextClassify ==
    \/ \E prompt \in ClassifyPrompts : CHAT_TASKS = <<>> /\ Submit(prompt)
    \/ Resubmit

SpecClassify == Init /\ [][NextClassify]_vars

\* The Data Store check: a caller asks the Data Store whether it changed (as
\* render_dashboard does), between calls of fetch_data, which ask it too.
CheckForUpdates(roll) ==
    /\ roll => db._last_update_time < MaxGen
    /\ LET r == check_for_updates(db, roll)
       IN  /\ db' = r.db
           /\ last' = [op |-> "check", id |-> 0, ret |-> r.ret]
    /\ UNCHANGED <<DATA_CACHE, INSIGHT_CACHE, CHAT_TASKS, polls, watch, client, heap, made, threads>>

NextStore ==
    \/ \E roll \in BOOLEAN : CheckForUpdates(roll)
    \/ \E t \in Threads, req \in FetchRequests, roll \in BOOLEAN :
          Free(t) /\ FetchData(t, req, roll, FALSE)
    \/ \E t \in Threads : FetchReturn(t)

SpecStore == Init /\ [][NextStore]_vars

\* The key check: callers fetch with all five parameters of fetch_data, with
\* names that contain the separators of the cache key.
DateProductA == Date \o <<"-">> \o ProductA
XBar         == <<"x", "|">>
SalesTableX  == SalesTable \o <<"|", "x">>
Sum          == <<"s", "u", "m">>

KeyRequests ==
    { [ source |-> SalesTable, columns |-> Some(<<Date, ProductA>>),
        filters |-> None, groupby |-> None, aggregation |-> None ],
      [ source |-> SalesTable, columns |-> Some(<<DateProductA>>),
        filters |-> None, groupby |-> None, aggregation |-> None ],
      [ source |-> SalesTable, columns |-> Some(<<Date, ProductA>>),
        filters |-> Some(<< <<"x">> >>), groupby |-> None, aggregation |-> None ],
      [ source |-> SalesTable, columns |-> Some(<<Date, ProductA>>),
        filters |-> None, groupby |-> Some(<<Date>>),
        aggregation |-> Dict(<< <<ProductA, Sum>> >>) ],
      [ source |-> SalesTable, columns |-> Some(<<XBar>>),
        filters |-> None, groupby |-> None, aggregation |-> None ],
      [ source |-> SalesTableX, columns |-> None,
        filters |-> None, groupby |-> None, aggregation |-> None ],
      [ source |-> UnknownTable, columns |-> Some(<<Date>>),
        filters |-> None, groupby |-> None, aggregation |-> None ] }

\* a caller fetches data, passing all five parameters
FetchWith(t, req, roll, keep) ==
    FetchCall(t, req, req.groupby, req.aggregation, roll, keep)

NextKeys ==
    \/ \E t \in Threads, req \in KeyRequests, roll \in BOOLEAN, keep \in BOOLEAN :
          Free(t) /\ Keeps(keep) /\ FetchWith(t, req, roll, keep)
    \/ \E t \in Threads : FetchReturn(t)

SpecKeys == Init /\ [][NextKeys]_vars

\* The object check: the Data Store, the data cache and a caller hold
\* DataFrame objects; the caller may keep the object fetch_data returned and
\* write into it.
InitObjects ==
    /\ heap = << GenerateData(0)._sales_data, GenerateData(0)._geo_data >>
    /\ db = [_sales_data |-> 1, _geo_data |-> 2, _last_update_time |-> 0]
    /\ DATA_CACHE = <<>>
    /\ INSIGHT_CACHE = <<>>
    /\ CHAT_TASKS = <<>>
    /\ last = [op |-> "none", id |-> 0]
    /\ polls = <<>>
    /\ watch = [set |-> FALSE]
    /\ client = [t \in Threads |-> NoClient]
    /\ threads = [t \in Threads |-> Idle]
    /\ made = 0

ObjectRequests ==
    { [ source |-> UserGeoTable, columns |-> None ],
      [ source |-> UserGeoTable, columns |-> Some(<<Lat, Lon>>) ],
      [ source |-> UnknownTable, columns |-> Some(<<Date>>) ] }

\* the keys of a cache in a fixed order
KeySeq(cache) ==
    CHOOSE f \in [1..Cardinality(DOMAIN cache) -> DOMAIN cache] :
        \A i, j \in 1..Cardinality(DOMAIN cache) : f[i] = f[j] => i = j

\* the references held after a call: by the Data Store, by the data cache, by
\* the caller for the DataFrame it kept and for the one just returned
Live(d, cache, w, l) ==
    << d._sales_data, d._geo_data >>
    \o [i \in 1..Cardinality(DOMAIN cache) |-> cache[KeySeq(cache)[i]]]
    \o (IF w.set THEN <<w.ref>> ELSE <<>>)
    \o (IF l.op = "fetch" THEN <<l.ref>> ELSE <<>>)

\* Addresses are names: the objects no reference leads to are freed and the
\* others are numbered in the order of the references.  Addr is the address
\* of object a after that, Collect the heap.
Addr(live, a) ==
    LET first == CHOOSE i \in 1..Len(live) :
                    live[i] = a /\ \A j \in 1..(i - 1) : live[j] # a
    IN  Cardinality({live[j] : j \in 1..(first - 1)}) + 1

Collect(h, live) ==
    LET objects == {live[i] : i \in 1..Len(live)}
    IN  [n \in 1..Cardinality(objects) |->
            h[CHOOSE a \in objects : Addr(live, a) = n]]

\* the state after a call that left heap h, Data Store d, cache c, the
\* caller's DataFrame w and the record l of the call
AfterCall(h, d, c, w, l) ==
    \E live \in {Live(d, c, w, l)}, hh \in {h} :
        /\ heap' = Collect(hh, live)
        /\ db' = [d EXCEPT !._sales_data = Addr(live, @), !._geo_data = Addr(live, @)]
        /\ DATA_CACHE' = [k \in DOMAIN c |-> Addr(live, c[k])]
        /\ watch' = IF w.set THEN [w EXCEPT !.ref = Addr(live, @)] ELSE w
        /\ last' = IF l.op = "fetch" THEN [l EXCEPT !.ref = Addr(live, @)] ELSE l

\* the Data Store is asked whether it changed
CheckObjects(roll) ==
    /\ roll => db._last_update_time < MaxGen
    /\ \E r \in {check_for_updates_objects(heap, db, roll)} :
          AfterCall(r.heap, r.db, DATA_CACHE, watch,
                    [op |-> "check", id |-> 0, ret |-> r.ret])
    /\ UNCHANGED <<INSIGHT_CACHE, CHAT_TASKS, polls, client, threads, made>>

\* thread t calls fetch_data (lines 73-83) and sleeps; the caller drops the
\* DataFrame an earlier call returned unless it kept it
FetchObjects(t, req, roll, keep) ==
    /\ threads[t].pc = "idle"
    /\ made < MaxFetches
    /\ made' = made + 1
    /\ roll => db._last_update_time < MaxGen
    /\ \E b \in {fetch_data_objects_begin(heap, db, DATA_CACHE, req.source, req.columns,
                                          None, None, None, roll)} :
          /\ AfterCall(b.heap, b.db, DATA_CACHE, watch, Step(t))
          /\ threads' = [threads EXCEPT ![t] =
                            [ pc |-> "fetch", fn |-> "fetch", args |-> req,
                              key |-> b.key, path |-> b.path, keep |-> keep ]]
    /\ UNCHANGED <<INSIGHT_CACHE, CHAT_TASKS, polls, client>>

\* thread t wakes up in fetch_data (line 80, or lines 85-100) and the call
\* returns a DataFrame, which the caller keeps or not
ObjectsReturn(t) ==
    /\ threads[t].pc = "fetch"
    /\ \E th \in {threads[t]} :
       \E e \in {fetch_data_objects_end(heap, db, DATA_CACHE, th.args.source,
                                        th.args.columns, th.key, th.path)} :
          AfterCall(e.heap, db, e.cache,
                    IF th.keep
                    THEN [ set |-> TRUE, ref |-> e.ref, content |-> e.heap[e.ref],
                           gen |-> db._last_update_time,
                           own |-> e.ref \in {db._sales_data, db._geo_data},
                           mutated |-> FALSE ]
                    ELSE watch,
                    [ op |-> "fetch", id |-> 0, thread |-> t, args |-> th.args,
                      ref |-> e.ref, ret |-> e.heap[e.ref], path |-> th.path,
                      key |-> th.key ])
    /\ threads' = [threads EXCEPT ![t] = Idle]
    /\ UNCHANGED <<INSIGHT_CACHE, CHAT_TASKS, polls, client, made>>

\* the caller writes into the DataFrame it kept
MutateObject ==
    /\ watch.set /\ ~watch.mutated
    /\ heap[watch.ref] # <<>>
    /\ AfterCall([heap EXCEPT ![watch.ref] = Mutate(heap[watch.ref])], db, DATA_CACHE,
                 [watch EXCEPT !.mutated = TRUE], [op |-> "mutate", id |-> 0])
    /\ UNCHANGED <<INSIGHT_CACHE, CHAT_TASKS, polls, client, threads, made>>

NextObjects ==
    \/ \E roll \in BOOLEAN : CheckObjects(roll)
    \/ \E t \in Threads, req \in ObjectRequests, roll \in BOOLEAN, keep \in BOOLEAN :
          Free(t) /\ Keeps(keep) /\ FetchObjects(t, req, roll, keep)
    \/ \E t \in Threads : ObjectsReturn(t)
    \/ MutateObject

SpecObjects == InitObjects /\ [][NextObjects]_vars

\* The insight check: callers ask for insights under the keys the chat and
\* the dashboard build, with any chart type.
InsightKeys ==
    { InsightKey("sales_insight_", addr) : addr \in Addrs }
    \cup { InsightKey("geo_insight_cached", 0) }

\* thread t calls generate_chart_insight (lines 159-164): a key the cache
\* holds is answered at once; otherwise the thread sleeps
GenerateInsight(t, data_hash_key, chart_type) ==
    /\ threads[t].pc = "idle"
    /\ \E l \in {insight_lookup(INSIGHT_CACHE, data_hash_key)} :
          IF l.path = "hit"
          THEN /\ last' = [ op |-> "insight", id |-> 0, thread |-> t,
                            key |-> data_hash_key, chart_type |-> chart_type,
                            ret |-> l.ret, path |-> "hit" ]
               /\ UNCHANGED threads
          ELSE /\ threads' = [threads EXCEPT ![t] =
                                 [ pc |-> "insight", fn |-> "insight",
                                   key |-> data_hash_key, chart_type |-> chart_type ]]
               /\ last' = Step(t)
    /\ UNCHANGED <<db, DATA_CACHE, INSIGHT_CACHE, CHAT_TASKS, polls, watch, client, heap, made>>

\* thread t wakes up in generate_chart_insight (lines 166-174): the insight is
\* generated, stored under the key and returned
InsightReturn(t) ==
    /\ threads[t].pc = "insight"
    /\ \E th \in {threads[t]} :
       \E r \in {insight_generate(INSIGHT_CACHE, th.key, th.chart_type)} :
          /\ INSIGHT_CACHE' = r.cache
          /\ last' = [ op |-> "insight", id |-> 0, thread |-> t, key |-> th.key,
                       chart_type |-> th.chart_type, ret |-> r.ret, path |-> "miss" ]
    /\ threads' = [threads EXCEPT ![t] = Idle]
    /\ UNCHANGED <<db, DATA_CACHE, CHAT_TASKS, polls, watch, client, heap, made>>

NextInsight ==
    \/ \E t \in Threads, data_hash_key \in InsightKeys, chart_type \in ChartTypes :
          Free(t) /\ GenerateInsight(t, data_hash_key, chart_type)
    \/ \E t \in Threads : InsightReturn(t)

SpecInsight == Init /\ [][NextInsight]_vars

\* The insight check while the Data Store regenerates
NextInsightStore ==
    \/ NextInsight
    \/ \E roll \in BOOLEAN : CheckForUpdates(roll)

SpecInsightStore == Init /\ [][NextInsightStore]_vars

\* The registry with several tasks in flight: callers submit, poll and read
\* tasks in any interleaving.
TrendPrompt ==
    <<"S", "h", "o", "w", " ", "t", "h", "i", "s", " ", "w", "e", "e", "k", "'", "s", " ",
      "p", "r", "o", "d", "u", "c", "t", " ", "t", "r", "e", "n", "d", "s">>
MapPrompt    == <<"M", "A", "P", " ", "o", "f", " ", "u", "s", "e", "r", "s">>
PolicyPrompt == <<"p", "o", "l", "i", "c", "y">>
HelloPrompt  == <<"h", "e", "l", "l", "o">>

PairPrompts == {TrendPrompt, HelloPrompt}

NextPair ==
    \/ \E prompt \in PairPrompts :
          Cardinality(DOMAIN CHAT_TASKS) < MaxPairTasks /\ Submit(prompt)
    \/ \E t \in Threads, request_id \in DOMAIN CHAT_TASKS :
          Free(t) /\ PollsLeft(request_id, MaxPairExtraPolls) /\ Poll(t, request_id)
    \/ \E t \in Threads : \E roll \in WakeDraws(t) : PollWake(t, roll, FALSE)
    \/ \E t \in Threads : PipeFetched(t)
    \/ \E t \in Threads, addr \in Addrs : PipeChart(t, addr)
    \/ \E t \in Threads : PipeInsight(t)
    \/ \E request_id \in DOMAIN CHAT_TASKS : GetResult(request_id)

SpecPair == Init /\ [][NextPair]_vars

\* The registry used by callers that never overlap: a call is made only when
\* no call is under way.
NextSequential ==
    \/ \E prompt \in PairPrompts :
          Quiet /\ Cardinality(DOMAIN CHAT_TASKS) < MaxPairTasks /\ Submit(prompt)
    \/ \E t \in Threads, request_id \in DOMAIN CHAT_TASKS :
          Quiet /\ Free(t) /\ PollsLeft(request_id, MaxExtraPolls) /\ Poll(t, request_id)
    \/ \E t \in Threads : \E roll \in WakeDraws(t) : PollWake(t, roll, FALSE)
    \/ \E t \in Threads : PipeFetched(t)
    \/ \E t \in Threads, addr \in Addrs : PipeChart(t, addr)
    \/ \E t \in Threads : PipeInsight(t)
    \/ \E request_id \in DOMAIN CHAT_TASKS : Quiet /\ GetResult(request_id)

SpecSequential == Init /\ [][NextSequential]_vars

\* The race check: callers in different threads poll one task and ask for its
\* result at the same time.  A thread can be pre-empted between any two
\* accesses to the task; `task["step_index"] += 1` is a read followed by a
\* write.  _generate_final_result runs as one step.  In this check polls[i]
\* counts the polls that returned the label of step i, and watch.synth the
\* runs of _generate_final_result.
RaceId == 1

InitRace ==
    /\ db = GenerateData(0)
    /\ DATA_CACHE = <<>>
    /\ INSIGHT_CACHE = <<>>
    /\ CHAT_TASKS = <<>>
    /\ last = [op |-> "none", id |-> 0]
    /\ polls = <<>>
    /\ watch = [set |-> FALSE, synth |-> 0]
    /\ client = [t \in Threads |-> NoClient]
    /\ heap = <<>>
    /\ threads = [t \in Threads |-> Idle]
    /\ made = 0

\* the task the threads race on is submitted
RaceSubmit(prompt) ==
    /\ DOMAIN CHAT_TASKS = {}
    /\ LET r == submit_chat_request(CHAT_TASKS, prompt, RaceId, RaceId)
       IN  /\ CHAT_TASKS' = r.tasks
           /\ polls' = [i \in 1..Len(r.tasks[RaceId].steps) |-> 0]
           /\ last' = [op |-> "submit", id |-> r.ret, prompt |-> prompt]
    /\ UNCHANGED <<db, DATA_CACHE, INSIGHT_CACHE, watch, client, heap, made, threads>>

\* thread t returns ret from fn
Return(t, fn, ret) ==
    /\ threads' = [threads EXCEPT ![t] = Idle]
    /\ last' = [op |-> fn, id |-> RaceId, thread |-> t, ret |-> ret]

\* poll_chat_status, lines 241-247: the task is looked up and its status read
PollBegin(t) ==
    /\ RaceId \in DOMAIN CHAT_TASKS
    /\ threads[t].pc = "idle"
    /\ IF CHAT_TASKS[RaceId].status = "complete"
       THEN Return(t, "poll", StatusDone)
       ELSE /\ threads' = [threads EXCEPT ![t].pc = "read"]
            /\ last' = [op |-> "step", id |-> RaceId, thread |-> t]
    /\ UNCHANGED <<db, DATA_CACHE, INSIGHT_CACHE, CHAT_TASKS, polls, watch, client, heap, made>>

\* lines 250-254: the cursor is read, and the thread sleeps for the step
PollRead(t) ==
    /\ threads[t].pc = "read"
    /\ LET idx == CHAT_TASKS[RaceId].step_index
       IN  IF idx < Len(CHAT_TASKS[RaceId].steps)
           THEN /\ threads' = [threads EXCEPT ![t].pc = "load", ![t].idx = idx]
                /\ last' = [op |-> "step", id |-> RaceId, thread |-> t]
           ELSE Return(t, "poll", StatusDone)
    /\ UNCHANGED <<db, DATA_CACHE, INSIGHT_CACHE, CHAT_TASKS, polls, watch, client, heap, made>>

\* line 255, the read of `task["step_index"] += 1`
PollLoad(t) ==
    /\ threads[t].pc = "load"
    /\ threads' = [threads EXCEPT ![t].pc = "store",
                                  ![t].tmp = CHAT_TASKS[RaceId].step_index]
    /\ last' = [op |-> "step", id |-> RaceId, thread |-> t]
    /\ UNCHANGED <<db, DATA_CACHE, INSIGHT_CACHE, CHAT_TASKS, polls, watch, client, heap, made>>

\* line 255, the write of `task["step_index"] += 1`
PollStore(t) ==
    /\ threads[t].pc = "store"
    /\ CHAT_TASKS' = [CHAT_TASKS EXCEPT ![RaceId].step_index = threads[t].tmp + 1]
    /\ threads' = [threads EXCEPT ![t].pc = "exhausted"]
    /\ last' = [op |-> "step", id |-> RaceId, thread |-> t]
    /\ UNCHANGED <<db, DATA_CACHE, INSIGHT_CACHE, polls, watch, client, heap, made>>

\* lines 258 and 262: was the last step just finished; if not, the label of
\* the step read at line 253 is returned
PollExhausted(t) ==
    /\ threads[t].pc = "exhausted"
    /\ IF PlanExhausted(CHAT_TASKS[RaceId])
       THEN /\ threads' = [threads EXCEPT ![t].pc = "mark"]
            /\ last' = [op |-> "step", id |-> RaceId, thread |-> t]
            /\ UNCHANGED polls
       ELSE /\ Return(t, "poll", ProgressReply(CHAT_TASKS[RaceId].steps[threads[t].idx + 1]))
            /\ polls' = [polls EXCEPT ![threads[t].idx + 1] = @ + 1]
    /\ UNCHANGED <<db, DATA_CACHE, INSIGHT_CACHE, CHAT_TASKS, watch, client, heap, made>>

\* line 259
PollMark(t) ==
    /\ threads[t].pc = "mark"
    /\ CHAT_TASKS' = [CHAT_TASKS EXCEPT ![RaceId].status = "complete"]
    /\ threads' = [threads EXCEPT ![t].pc = "synth"]
    /\ last' = [op |-> "step", id |-> RaceId, thread |-> t]
    /\ UNCHANGED <<db, DATA_CACHE, INSIGHT_CACHE, polls, watch, client, heap, made>>

\* lines 260-262: the final result is built and stored, and the label of the
\* last step returned
PollSynth(t, roll, addr) ==
    /\ threads[t].pc = "synth"
    /\ roll => db._last_update_time < MaxGen
    /\ LET r == generate_final_result(CHAT_TASKS, db, DATA_CACHE, INSIGHT_CACHE,
                                      RaceId, roll, addr)
       IN  /\ CHAT_TASKS' = r.tasks
           /\ db' = r.db
           /\ DATA_CACHE' = r.dcache
           /\ INSIGHT_CACHE' = r.icache
    /\ watch' = [watch EXCEPT !.synth = @ + 1]
    /\ Return(t, "poll", ProgressReply(CHAT_TASKS[RaceId].steps[threads[t].idx + 1]))
    /\ polls' = [polls EXCEPT ![threads[t].idx + 1] = @ + 1]
    /\ UNCHANGED <<client, heap, made>>

\* get_chat_result, lines 268-273: the task is looked up and its status read
ResultBegin(t) ==
    /\ RaceId \in DOMAIN CHAT_TASKS
    /\ threads[t].pc = "idle"
    /\ IF CHAT_TASKS[RaceId].status # "complete"
       THEN Return(t, "result", ErrorNotComplete)
       ELSE /\ threads' = [threads EXCEPT ![t].pc = "final"]
            /\ last' = [op |-> "step", id |-> RaceId, thread |-> t]
    /\ UNCHANGED <<db, DATA_CACHE, INSIGHT_CACHE, CHAT_TASKS, polls, watch, client, heap, made>>

\* line 275
ResultRead(t) ==
    /\ threads[t].pc = "final"
    /\ Return(t, "result", CHAT_TASKS[RaceId].final_result)
    /\ UNCHANGED <<db, DATA_CACHE, INSIGHT_CACHE, CHAT_TASKS, polls, watch, client, heap, made>>

\* the prompts of the race check: a general and a knowledge question, whose
\* results _generate_final_result builds without fetch_data, so that it draws
\* nothing (written FALSE, address 1)
RacePrompts == {HelloPrompt, PolicyPrompt}

NextRace ==
    \/ \E prompt \in RacePrompts : RaceSubmit(prompt)
    \/ \E t \in Threads : PollBegin(t)
    \/ \E t \in Threads : PollRead(t)
    \/ \E t \in Threads : PollLoad(t)
    \/ \E t \in Threads : PollStore(t)
    \/ \E t \in Threads : PollExhausted(t)
    \/ \E t \in Threads : PollMark(t)
    \/ \E t \in Threads : PollSynth(t, FALSE, 1)
    \/ \E t \in Threads : ResultBegin(t)
    \/ \E t \in Threads : ResultRead(t)

SpecRace == InitRace /\ [][NextRace]_vars

\* The chat client, _simulate_llm_response (app.py), one generator per
\* thread: it submits the prompt, polls until a poll answers 'complete',
\* yielding the message of every other answer, then reads the result and
\* yields it.  A yielded string is [str |-> s], a yielded dict [dict |-> d].
\* When the generator is exhausted the thread answers the next prompt.
ClientSubmit(t, prompt) ==
    /\ client[t].pc \in {"idle", "done"}
    /\ Cardinality(DOMAIN CHAT_TASKS) < MaxRuns
    /\ LET request_id == Cardinality(DOMAIN CHAT_TASKS) + 1
           r == submit_chat_request(CHAT_TASKS, prompt, request_id, request_id)
       IN  /\ CHAT_TASKS' = r.tasks
           /\ polls' = [k \in DOMAIN polls \cup {request_id} |->
                           IF k = request_id THEN 0 ELSE polls[k]]
           /\ last' = [op |-> "submit", id |-> r.ret, prompt |-> prompt]
           /\ client' = [client EXCEPT ![t] =
                            [pc |-> "poll", request_id |-> r.ret, yielded |-> <<>>]]
    /\ UNCHANGED <<db, DATA_CACHE, INSIGHT_CACHE, watch, heap, made, threads>>

\* one turn of the `while True` loop: the generator calls poll_chat_status
ClientPoll(t) ==
    /\ client[t].pc = "poll"
    /\ Poll(t, client[t].request_id)

\* the statements after the loop
ClientResult(t) ==
    /\ client[t].pc = "result"
    /\ LET final_result == get_chat_result(CHAT_TASKS, client[t].request_id)
       IN  /\ last' = [op |-> "result", id |-> client[t].request_id, thread |-> t,
                       ret |-> final_result]
           /\ client' = [client EXCEPT ![t].pc = "done",
                                       ![t].yielded = Append(@, [dict |-> final_result])]
    /\ UNCHANGED <<db, DATA_CACHE, INSIGHT_CACHE, CHAT_TASKS, polls, watch, heap, made, threads>>

\* the draws of a poll of the client that wakes up, and whether the history
\* keeps its run of the pipeline
ClientDraws(t) ==
    IF ReachesPipeline(t) THEN BOOLEAN \X BOOLEAN ELSE {<<FALSE, FALSE>>}

\* a step of the generator of thread t, once it has been started
ClientTurn(t) ==
    \/ ClientPoll(t)
    \/ \E draw \in ClientDraws(t) : PollWake(t, draw[1], draw[2])
    \/ PipeFetched(t)
    \/ \E addr \in Addrs : PipeChart(t, addr)
    \/ PipeInsight(t)
    \/ ClientResult(t)

\* the first prompt of a session that has sent none goes to the first such
\* session: which of them sends it makes no difference
NextClient ==
    \/ \E t \in Threads, prompt \in Prompts :
          /\ \A u \in Threads : u < t => client[u].pc # "idle"
          /\ ClientSubmit(t, prompt)
    \/ \E t \in Threads : ClientTurn(t)

\* a generator that was started is run to its end by the `for` loop of
\* handle_user_input; nothing obliges a user to send a further prompt
SpecClient == Init /\ [][NextClient]_vars /\ \A t \in Threads : WF_vars(ClientTurn(t))

----------------------------------------------------------------------------
(* Properties of the task registry *)

Known == DOMAIN CHAT_TASKS

\* the threads that are inside a poll of task id
InFlight(id) ==
    {t \in Threads : threads[t].pc # "idle" /\ threads[t].fn = "poll" /\ threads[t].id = id}

\* polls[id] counts the polls of task id that were made; Returned(id) counts
\* those that have returned
Returned(id) == polls[id] - Cardinality(InFlight(id))

\* the plan lengths the specification states for the four intents
StatedPlanLength(type) ==
    IF type \in {"chart", "map"} THEN 5 ELSE IF type = "rag" THEN 4 ELSE 2

\* C1: a task is stored as 'complete' after as many polls as its step plan has
\* steps (chart 5, map 5, rag 4, general 2): while fewer polls have been made
\* its stored status is not 'complete', and once that many have returned it is.
C1_CompleteAfterPlanLengthPolls ==
    \A id \in Known :
        /\ Len(CHAT_TASKS[id].steps) = StatedPlanLength(CHAT_TASKS[id].type)
        /\ polls[id] < StatedPlanLength(CHAT_TASKS[id].type)
              => CHAT_TASKS[id].status # "complete"
        /\ Returned(id) >= StatedPlanLength(CHAT_TASKS[id].type)
              => CHAT_TASKS[id].status = "complete"

\* a chart task has just been completed by its fifth poll
C1_Witness ==
    /\ last.op = "poll" /\ last.id \in Known
    /\ last.synthesized
    /\ CHAT_TASKS[last.id].type = "chart"
    /\ polls[last.id] = 5
    /\ CHAT_TASKS[last.id].status = "complete"

LastStepLabel(task) ==
    << task.steps[Len(task.steps)][1], " ", task.steps[Len(task.steps)][2] >>

\* C2: the poll that exhausts the plan (the one in which the result is
\* synthesized) returns 'processing' with the last step's label, the task being
\* stored 'complete' with its final result when it returns; a poll returns
\* {complete, Done} only after the plan was exhausted; and get_chat_result
\* returns the result once the exhausting poll has returned.
C2_LastPollStillProcessing ==
    /\ (last.op = "poll" /\ last.id \in Known) =>
          LET task == CHAT_TASKS[last.id]
          IN  /\ last.synthesized =>
                    /\ last.ret = [status |-> "processing", message |-> LastStepLabel(task)]
                    /\ task.status = "complete"
                    /\ ~IsNone(task.final_result)
              /\ last.ret.status = "complete" =>
                    /\ last.ret = [status |-> "complete", message |-> <<"Done">>]
                    /\ task.step_index >= Len(task.steps)
    /\ (last.op = "result" /\ last.id \in Known) =>
          (~IsNone(CHAT_TASKS[last.id].final_result) =>
              last.ret = CHAT_TASKS[last.id].final_result)

\* the stores a chat call can touch
Stores == <<db, DATA_CACHE, INSIGHT_CACHE>>

\* C3: a poll made of a task that is complete returns exactly
\* {complete, Done} and changes neither the task nor any store.
C3_PollAfterCompleteIdempotent ==
    [][ ( /\ last'.op = "poll" /\ last'.id \in Known
          /\ threads[last'.thread].pc = "idle"
          /\ CHAT_TASKS[last'.id].status = "complete" )
        => /\ last'.ret = [status |-> "complete", message |-> <<"Done">>]
           /\ CHAT_TASKS' = CHAT_TASKS
           /\ Stores' = Stores ]_vars

\* a completed task has been polled twice more
C3_Witness ==
    /\ last.op = "poll" /\ last.id \in Known
    /\ polls[last.id] = Len(CHAT_TASKS[last.id].steps) + 2
    /\ Returned(last.id) = polls[last.id]
    /\ ~IsNone(CHAT_TASKS[last.id].final_result)
    /\ last.ret.status = "complete"

\* C4: get_chat_result on a known task that is not complete returns the
\* not-ready error; on a complete task it returns the synthesized result; and
\* the call changes neither the registry nor a store.
C4_ResultNotReadyThenStable ==
    [][ (last'.op = "result" /\ last'.id \in Known) =>
           /\ CHAT_TASKS[last'.id].status # "complete"
                 => last'.ret = [error |-> "Task not complete yet"]
           /\ CHAT_TASKS[last'.id].status = "complete"
                 => /\ "blocks" \in DOMAIN last'.ret
                    /\ last'.ret = CHAT_TASKS[last'.id].final_result
           /\ CHAT_TASKS' = CHAT_TASKS
           /\ Stores' = Stores ]_vars

\* C5: poll_chat_status and get_chat_result on an identifier submit never
\* returned answer with their invalid-id error, which differs from every answer
\* given for a known task, and leave the registry as it was.
C5_UnknownIdRejected ==
    [][ (last'.op \in {"poll", "result"} /\ last'.id \notin Known) =>
           /\ last'.op = "poll" =>
                 /\ last'.ret = [status |-> "error", message |-> <<"Invalid request ID">>]
                 /\ last'.ret.status \notin {"processing", "complete"}
           /\ last'.op = "result" =>
                 /\ last'.ret = [error |-> "Invalid request ID"]
                 /\ last'.ret # [error |-> "Task not complete yet"]
           /\ CHAT_TASKS' = CHAT_TASKS
           /\ polls' = polls
           /\ Stores' = Stores ]_vars

\* an unknown identifier was polled while a poll of a task was under way
C5_Witness ==
    /\ last.op = "poll" /\ last.id \notin Known
    /\ \E j \in Known : InFlight(j) # {} /\ CHAT_TASKS[j].status = "pending"

\* s contains k, letter case ignored
ContainsKeyword(s, k) ==
    \E i \in 1..Len(s) :
        /\ i + Len(k) - 1 <= Len(s)
        /\ \A j \in 1..Len(k) : LowerChar(s[i + j - 1]) = k[j]

ContainsAny(s, keywords) ==
    \E n \in 1..Len(keywords) : ContainsKeyword(s, keywords[n])

\* C6: the intent is chart if the prompt contains a chart keyword, else map if
\* it contains a map keyword, else rag if it contains a rag keyword, else
\* general; the plan is the one of the intent; and a prompt submitted again gets
\* the same intent and plan.
C6_ClassificationByPriority ==
    /\ \A id \in Known :
          LET task == CHAT_TASKS[id]
          IN  /\ task.type = "chart" <=> ContainsAny(task.prompt, ChartKeywords)
              /\ task.type = "map" <=>
                    /\ ~ContainsAny(task.prompt, ChartKeywords)
                    /\ ContainsAny(task.prompt, MapKeywords)
              /\ task.type = "rag" <=>
                    /\ ~ContainsAny(task.prompt, ChartKeywords)
                    /\ ~ContainsAny(task.prompt, MapKeywords)
                    /\ ContainsAny(task.prompt, RagKeywords)
              /\ task.type \in {"chart", "map", "rag", "general"}
              /\ Len(task.steps) = StatedPlanLength(task.type)
    /\ \A i, j \in Known :
          CHAT_TASKS[i].prompt = CHAT_TASKS[j].prompt
             => /\ CHAT_TASKS[i].type = CHAT_TASKS[j].type
                /\ CHAT_TASKS[i].steps = CHAT_TASKS[j].steps

\* a prompt with a chart keyword and a map keyword, submitted twice
C6_Witness ==
    /\ Cardinality(Known) = 2
    /\ ContainsAny(CHAT_TASKS[1].prompt, ChartKeywords)
    /\ ContainsAny(CHAT_TASKS[1].prompt, MapKeywords)
    /\ CHAT_TASKS[1].type = "chart"
    /\ CHAT_TASKS[2].type = "chart"

\* thread t, inside a poll of task id, takes this step
PollStep(t, id) ==
    /\ threads[t].pc # "idle" /\ threads[t].fn = "poll" /\ threads[t].id = id
    /\ threads'[t] # threads[t]

\* C11: a task is created with status 'pending', cursor 0 and no final result;
\* a step that is not one of a poll of the task's own identifier leaves the
\* task as it was; and once a task is 'complete' nothing changes it, but for
\* the poll that completed it storing the final result.
C11_TaskChangedOnlyByOwnPoll ==
    [][ /\ \A id \in (DOMAIN CHAT_TASKS') \ Known :
              /\ CHAT_TASKS'[id].status = "pending"
              /\ CHAT_TASKS'[id].step_index = 0
              /\ IsNone(CHAT_TASKS'[id].final_result)
        /\ \A id \in Known :
              /\ id \in DOMAIN CHAT_TASKS'
              /\ CHAT_TASKS'[id] # CHAT_TASKS[id] => \E t \in Threads : PollStep(t, id)
              /\ (CHAT_TASKS[id].status = "complete" /\ CHAT_TASKS'[id] # CHAT_TASKS[id]) =>
                    /\ IsNone(CHAT_TASKS[id].final_result)
                    /\ CHAT_TASKS'[id] =
                          [CHAT_TASKS[id] EXCEPT !.final_result = CHAT_TASKS'[id].final_result] ]_vars

\* thread t reaches _generate_final_result (line 260) in this step
Synthesizes(t) ==
    /\ threads[t].pc = "poll"
    /\ \/ threads'[t].pc = "pipe_fetch"
       \/ last'.op = "poll" /\ last'.thread = t /\ last'.synthesized

\* C12: _generate_final_result runs for a task once, in the poll that
\* exhausts its plan: when it runs the task was not complete and had no
\* result, and the cursor has just reached the plan length.
C12_SynthesisExactlyOnce ==
    [][ \A t \in Threads :
           Synthesizes(t) =>
              LET id == threads[t].id
              IN  /\ CHAT_TASKS[id].status # "complete"
                  /\ IsNone(CHAT_TASKS[id].final_result)
                  /\ CHAT_TASKS'[id].step_index = Len(CHAT_TASKS[id].steps) ]_vars

\* thread t is running the pipeline of a poll that exhausted the plan of a
\* chart or map task
InPipeline(t) ==
    /\ threads[t].fn = "poll"
    /\ threads[t].id \in DOMAIN CHAT_TASKS'
    /\ CHAT_TASKS'[threads[t].id].type \in {"chart", "map"}
    /\ CHAT_TASKS'[threads[t].id].step_index >= Len(CHAT_TASKS'[threads[t].id].steps)
    /\ CHAT_TASKS'[threads[t].id].status = "complete"

\* C13: fetch_data, generate_universal_chart and generate_chart_insight are
\* called only in a poll that exhausts the plan of a chart or map task, in
\* that order: a poll enters fetch_data only from the step that exhausts the
\* plan, generate_universal_chart only from fetch_data, generate_chart_insight
\* only from generate_universal_chart; a poll that returns has called all
\* three in that order or none; and the Data Store, the data cache and the
\* insight cache change in no other step.
C13_PipelineLazyAndOrdered ==
    [][ /\ \A t \in Threads :
              threads'[t] # threads[t] =>
                 /\ threads'[t].pc = "pipe_fetch" => threads[t].pc = "poll" /\ InPipeline(t)
                 /\ threads'[t].pc = "pipe_chart" => threads[t].pc = "pipe_fetch" /\ InPipeline(t)
                 /\ threads'[t].pc = "pipe_insight" => threads[t].pc = "pipe_chart" /\ InPipeline(t)
        /\ (last'.op = "poll" /\ last'.id \in Known) =>
              \/ last'.calls = <<>>
              \/ /\ [i \in 1..Len(last'.calls) |-> last'.calls[i].fn]
                       = <<"fetch_data", "generate_universal_chart", "generate_chart_insight">>
                 /\ threads[last'.thread].pc \in {"pipe_chart", "pipe_insight"}
                 /\ InPipeline(last'.thread)
        /\ Stores' # Stores =>
              \E t \in Threads :
                 /\ threads[t].pc \in {"poll", "pipe_fetch", "pipe_insight"}
                 /\ threads'[t] # threads[t]
                 /\ InPipeline(t) ]_vars

\* the pipeline ran in the fifth poll of a chart task, on the cold path,
\* while a poll of another task was under way
C13_Witness ==
    /\ Cardinality(Known) >= 2
    /\ last.op = "poll" /\ last.id \in Known
    /\ CHAT_TASKS[last.id].type = "chart"
    /\ polls[last.id] = 5
    /\ Len(last.calls) = 3 /\ last.calls[1].path = "miss"
    /\ \E j \in Known : CHAT_TASKS[j].status = "pending" /\ InFlight(j) # {}

\* the types of the blocks of a final result, in order
BlockTypes(result) == [i \in 1..Len(result.blocks) |-> result.blocks[i].type]

\* the blocks of a final result that have the given type
BlocksOfType(result, type) ==
    {i \in 1..Len(result.blocks) : result.blocks[i].type = type}

\* C14: a task whose prompt has a chart keyword (as "Show this week's product
\* trends") is a chart task with a plan of 5 steps, and its final result, once
\* synthesized, has exactly the blocks text, plotly, text, the plotly block
\* carrying a chart spec and an insight string that is not empty.
C14_ChartResultShape ==
    \A id \in Known :
        ContainsAny(CHAT_TASKS[id].prompt, ChartKeywords) =>
            /\ CHAT_TASKS[id].type = "chart"
            /\ Len(CHAT_TASKS[id].steps) = 5
            /\ ~IsNone(CHAT_TASKS[id].final_result) =>
                  LET result == CHAT_TASKS[id].final_result
                  IN  /\ BlockTypes(result) = <<"text", "plotly", "text">>
                      /\ result.blocks[2].insight # ""
                      /\ "spec" \in DOMAIN result.blocks[2]

\* the task of "Show this week's product trends" is complete and its result
\* has been read
C14_Witness ==
    /\ last.op = "result" /\ last.id \in Known
    /\ CHAT_TASKS[last.id].prompt = TrendPrompt
    /\ CHAT_TASKS[last.id].status = "complete"
    /\ "blocks" \in DOMAIN last.ret
    /\ Len(last.ret.blocks) = 3

\* C15: a task whose prompt has no keyword (as "hello") is a general task with
\* a plan of 2 steps; no poll of it answers with status 'error'; once two
\* polls have returned it is complete; and its final result, which
\* get_chat_result returns, has exactly 2 blocks, both text.
C15_GeneralPromptCompletes ==
    \A id \in Known :
        ( /\ ~ContainsAny(CHAT_TASKS[id].prompt, ChartKeywords)
          /\ ~ContainsAny(CHAT_TASKS[id].prompt, MapKeywords)
          /\ ~ContainsAny(CHAT_TASKS[id].prompt, RagKeywords) ) =>
            /\ CHAT_TASKS[id].type = "general"
            /\ Len(CHAT_TASKS[id].steps) = 2
            /\ (last.op = "poll" /\ last.id = id) => last.ret.status # "error"
            /\ Returned(id) >= 2 => CHAT_TASKS[id].status = "complete"
            /\ CHAT_TASKS[id].status = "complete" =>
                  /\ BlockTypes(CHAT_TASKS[id].final_result) = <<"text", "text">>
                  /\ (last.op = "result" /\ last.id = id) =>
                        last.ret = CHAT_TASKS[id].final_result

\* the task of "hello" was polled to completion and its result read
C15_Witness ==
    /\ last.op = "result" /\ last.id \in Known
    /\ CHAT_TASKS[last.id].prompt = HelloPrompt
    /\ polls[last.id] = 2
    /\ "blocks" \in DOMAIN last.ret

\* C16: the final result of a rag task (as the one of "policy") has exactly one
\* reference block, which lists exactly 2 sources, each with a title and a
\* url; and no poll of a rag task calls fetch_data, generate_universal_chart
\* or generate_chart_insight.
C16_RagResultShape ==
    \A id \in Known :
        CHAT_TASKS[id].type = "rag" =>
            /\ CHAT_TASKS[id].status = "complete" =>
                  LET result == CHAT_TASKS[id].final_result
                      refs == BlocksOfType(result, "reference")
                  IN  /\ Cardinality(refs) = 1
                      /\ \A i \in refs :
                            /\ Len(result.blocks[i].sources) = 2
                            /\ \A j \in 1..Len(result.blocks[i].sources) :
                                  {"title", "url"} \subseteq DOMAIN result.blocks[i].sources[j]
            /\ (last.op = "poll" /\ last.id = id) => last.calls = <<>>
            /\ \A t \in InFlight(id) : threads[t].pc = "poll"

\* the poll that completed the task of "policy" has just returned
C16_Witness ==
    /\ last.op = "poll" /\ last.id \in Known
    /\ CHAT_TASKS[last.id].prompt = PolicyPrompt
    /\ last.synthesized
    /\ BlockTypes(CHAT_TASKS[last.id].final_result) = <<"text", "text", "reference">>

\* C21: submit_chat_request returns an identifier no earlier call returned,
\* adds exactly one task under it (status 'pending', cursor 0, no result, the
\* plan of the prompt's intent), and leaves every other task, the Data Store,
\* the data cache and the insight cache as they were.
C21_SubmitAddsOneFreshTask ==
    [][ last'.op = "submit" =>
           /\ last'.id \notin Known
           /\ DOMAIN CHAT_TASKS' = Known \cup {last'.id}
           /\ CHAT_TASKS'[last'.id].status = "pending"
           /\ CHAT_TASKS'[last'.id].step_index = 0
           /\ IsNone(CHAT_TASKS'[last'.id].final_result)
           /\ CHAT_TASKS'[last'.id].prompt = last'.prompt
           /\ CHAT_TASKS'[last'.id].steps = StepsFor(CHAT_TASKS'[last'.id].type)
           /\ Len(CHAT_TASKS'[last'.id].steps) = StatedPlanLength(CHAT_TASKS'[last'.id].type)
           /\ CHAT_TASKS'[last'.id].type = "chart" <=> ContainsAny(last'.prompt, ChartKeywords)
           /\ \A id \in Known : CHAT_TASKS'[id] = CHAT_TASKS[id]
           /\ Stores' = Stores ]_vars

\* a second task was submitted while the pipeline of the first, a chart task,
\* was under way
C21_Witness ==
    /\ last.op = "submit" /\ last.id = 2
    /\ Cardinality(Known) = 2
    /\ CHAT_TASKS[1].status = "complete"
    /\ \E t \in InFlight(1) : threads[t].pc = "pipe_chart"
    /\ DOMAIN DATA_CACHE # {}
    /\ CHAT_TASKS[2].status = "pending"

\* C27: between calls that do not overlap, every task has 0 <= cursor <= plan
\* length and a stored status of 'pending' or 'complete'; its status is
\* 'complete' exactly when the cursor equals the plan length, and exactly when
\* the final result is present; so no poll finds a task that is not complete
\* with its plan used up, the only case that reaches the last return of
\* poll_chat_status.
C27_TaskInvariant ==
    Quiet =>
        \A id \in Known :
            LET task == CHAT_TASKS[id]
            IN  /\ task.step_index \in 0..Len(task.steps)
                /\ task.status \in {"pending", "complete"}
                /\ task.status = "complete" <=> task.step_index = Len(task.steps)
                /\ task.status = "complete" <=> ~IsNone(task.final_result)
                /\ ~(task.status # "complete" /\ task.step_index >= Len(task.steps))

\* one task is a poll away from completion while another is complete and has
\* been polled again
C27_Witness ==
    /\ Quiet
    /\ Cardinality(Known) = 2
    /\ \E i, j \in Known :
          /\ CHAT_TASKS[i].status = "pending"
          /\ CHAT_TASKS[i].step_index = Len(CHAT_TASKS[i].steps) - 1
          /\ CHAT_TASKS[j].status = "complete"
          /\ polls[j] > Len(CHAT_TASKS[j].steps)

\* C26: an entry of the insight cache is never removed or overwritten: every
\* step, a regeneration of the Data Store included, keeps every key with its
\* string, and a generate_chart_insight call that returns for a stored key
\* returns that string, whatever the chart type.
C26_InsightEntriesPermanent ==
    [][ \A k \in DOMAIN INSIGHT_CACHE :
           /\ k \in DOMAIN INSIGHT_CACHE'
           /\ INSIGHT_CACHE'[k] = INSIGHT_CACHE[k]
           /\ (last'.op = "insight" /\ last'.key = k) => last'.ret = INSIGHT_CACHE[k] ]_vars

\* C28: get_chat_result running while another thread polls the task returns
\* the not-ready error or the synthesized result, never None.
C28_ResultNeverAbsent ==
    last.op = "result" => ~IsNone(last.ret)

\* C29: with several threads polling one task, the cursor never exceeds the
\* plan length, no step label is returned to two polls, no label is returned
\* while an earlier one was skipped, a finished plan has had every label
\* returned, and the result is synthesized at most once.
C29_ConcurrentPollsKeepPlan ==
    RaceId \in DOMAIN CHAT_TASKS =>
        /\ CHAT_TASKS[RaceId].step_index <= Len(CHAT_TASKS[RaceId].steps)
        /\ \A i \in DOMAIN polls : polls[i] <= 1
        /\ \A i, j \in DOMAIN polls : (i < j /\ polls[j] > 0) => polls[i] > 0
        /\ ~IsNone(CHAT_TASKS[RaceId].final_result) => \A i \in DOMAIN polls : polls[i] = 1
        /\ watch.synth <= 1

----------------------------------------------------------------------------
(* Properties of the chat client *)

\* C19: when the prompt of an earlier chart or map task is asked again and the
\* Data Store has not changed since that task's pipeline ran, the pipeline of
\* the second task is served by both caches: fetch_data takes the cache path,
\* generate_chart_insight finds its key and the insight cache is not written.
C19_RepeatedQuestionHitsBothCaches ==
    [][ ( /\ last'.op = "poll" /\ last'.synthesized
          /\ last'.calls # <<>>
          /\ watch.set
          /\ watch.prompt = CHAT_TASKS[last'.id].prompt
          /\ db'._last_update_time = watch.gen )
        => /\ last'.calls[1].path = "hit"
           /\ last'.calls[3].path = "hit"
           /\ INSIGHT_CACHE' = INSIGHT_CACHE ]_vars

\* the labels of a task's plan, as the strings poll_chat_status reports
PlanLabels(task) ==
    [i \in 1..Len(task.steps) |-> [str |-> <<task.steps[i][1], " ", task.steps[i][2]>>]]

\* what a client has yielded, at each position of a run
ClientYieldsPlanThenResult ==
    \A t \in Threads :
        client[t].pc # "idle" =>
            LET id == client[t].request_id
                task == CHAT_TASKS[id]
                n == Len(task.steps)
            IN  /\ client[t].pc = "poll" =>
                      /\ Returned(id) <= n
                      /\ client[t].yielded = SubSeq(PlanLabels(task), 1, Returned(id))
                /\ client[t].pc = "result" =>
                      /\ polls[id] = n + 1
                      /\ client[t].yielded = PlanLabels(task)
                /\ client[t].pc = "done" =>
                      /\ polls[id] = n + 1
                      /\ Len(client[t].yielded) = n + 1
                      /\ SubSeq(client[t].yielded, 1, n) = PlanLabels(task)
                      /\ "dict" \in DOMAIN client[t].yielded[n + 1]
                      /\ "blocks" \in DOMAIN client[t].yielded[n + 1].dict
                      /\ "error" \notin DOMAIN client[t].yielded[n + 1].dict
                      /\ client[t].yielded[n + 1].dict = task.final_result

\* C20: the client loop ends for every prompt; it yields the labels of the
\* task's plan, each once and in plan order, and then the final result, which
\* has 'blocks' and is no error value; it makes plan-length + 1 polls.
C20_ClientLoopTerminates ==
    /\ []ClientYieldsPlanThenResult
    /\ \A t \in Threads : (client[t].pc = "poll") ~> (client[t].pc = "done")

\* a client has answered a chart prompt to the end while the other client was
\* inside a poll of its own task
C20_Witness ==
    \E t, u \in Threads :
        /\ client[t].pc = "done"
        /\ CHAT_TASKS[client[t].request_id].type = "chart"
        /\ Len(client[t].yielded) = 6
        /\ polls[client[t].request_id] = 6
        /\ client[u].pc = "poll" /\ threads[u].pc # "idle"

----------------------------------------------------------------------------
(* Properties of the data layer *)

Fresh(df, gen) == \A i \in 1..Len(df) : df[i].ver = gen

\* C7: once a change of the Data Store has been detected, every fetch_data
\* call, whatever its key, returns data of the current snapshot and never an
\* entry cached before the change.
C7_NoStaleFetchAfterChange ==
    last.op = "dashboard" =>
        /\ Fresh(last.trend.ret, last.trend.gen)
        /\ Fresh(last.geo.ret, last.geo.gen)

\* C8: a fetch_data call with the parameters of an earlier call, with no change
\* of the Data Store since that call fetched, takes the cache path and returns
\* the content the earlier call returned, which is the entry under their key.
C8_RepeatFetchServedFromCache ==
    [][ ( /\ last'.op = "fetch"
          /\ watch.set
          /\ last'.args = watch.args
          /\ db'._last_update_time = watch.gen )
        => /\ last'.path = "hit"
           /\ last'.ret = watch.ret
           /\ DATA_CACHE' = DATA_CACHE
           /\ \E k \in DOMAIN DATA_CACHE : DATA_CACHE[k] = watch.ret ]_vars

\* the requested names the source has, in the order requested
RECURSIVE Intersection(_, _)
Intersection(requested, available) ==
    IF requested = <<>> THEN <<>>
    ELSE IF \E i \in 1..Len(available) : available[i] = Head(requested)
         THEN <<Head(requested)>> \o Intersection(Tail(requested), available)
         ELSE Intersection(Tail(requested), available)

\* C9: a fetch_data call with a column list that is computed on the cold path
\* returns exactly the requested columns the source has, in the order
\* requested, also when the source has none of them.
C9_ColdPathIsIntersection ==
    (last.op = "fetch" /\ last.path = "miss" /\ ~IsNone(last.args.columns)) =>
        Columns(last.ret) =
            Intersection(last.args.columns.list, Columns(SourceFrame(db, last.args.source)))

\* C22: no step of check_for_updates or fetch_data writes into a DataFrame
\* that exists: the DataFrame a caller kept and did not write into has the
\* content it had when handed out, however many regenerations followed (a
\* regeneration binds the Data Store to new objects); an entry of the data
\* cache keeps its content until a miss under its key replaces it; and the
\* Data Store's snapshots keep theirs in a step that does not regenerate.
C22_SnapshotsNeverMutatedInPlace ==
    [][ /\ (watch.set /\ ~watch.mutated) => heap[watch.ref] = watch.content
        /\ last'.op # "mutate" =>
               /\ \A k \in DOMAIN DATA_CACHE :
                     ~(last'.op = "fetch" /\ last'.path = "miss" /\ last'.key = k)
                        => /\ k \in DOMAIN DATA_CACHE'
                           /\ heap'[DATA_CACHE'[k]] = heap[DATA_CACHE[k]]
               /\ db'._last_update_time = db._last_update_time
                     => /\ heap'[db'._sales_data] = heap[db._sales_data]
                        /\ heap'[db'._geo_data] = heap[db._geo_data] ]_vars

\* the caller kept the Data Store's own geo DataFrame, the store regenerated
\* up to the bound after that, and the DataFrame and an entry cached before
\* the regenerations still have their content
C22_Witness ==
    /\ watch.set /\ watch.own /\ ~watch.mutated
    /\ watch.gen = 0 /\ db._last_update_time = MaxGen
    /\ watch.content # <<>>
    /\ heap[watch.ref] = watch.content
    /\ watch.ref \notin {db._sales_data, db._geo_data}
    /\ \E k \in DOMAIN DATA_CACHE : Fresh(heap[DATA_CACHE[k]], 0) /\ heap[DATA_CACHE[k]] # <<>>
    /\ last.op = "check" /\ last.ret

\* C23: the DataFrame fetch_data returns is not an object the data cache
\* holds, and a cache hit never returns values a caller wrote into a DataFrame
\* it received.
C23_CallerCannotChangeCacheHits ==
    /\ last.op = "fetch" => last.ref \notin {DATA_CACHE[k] : k \in DOMAIN DATA_CACHE}
    /\ (last.op = "fetch" /\ last.path = "hit") => ~IsMutated(last.ret)

\* C24: a fetch_data call that differs from an earlier call only in filters,
\* groupby or aggregation, with no change of the Data Store since that call
\* fetched, returns the content the earlier call returned and uses another
\* cache key.
C24_KeyOnlyParameters ==
    [][ ( /\ last'.op = "fetch"
          /\ watch.set
          /\ last'.args.source = watch.args.source
          /\ last'.args.columns = watch.args.columns
          /\ << last'.args.filters, last'.args.groupby, last'.args.aggregation >>
                # << watch.args.filters, watch.args.groupby, watch.args.aggregation >>
          /\ db'._last_update_time = watch.gen )
        => /\ last'.ret = watch.ret
           /\ last'.key # watch.key ]_vars

\* C25: a fetch_data call whose source is neither table returns the empty
\* dataset, whatever columns it asks for, on the first call and on every later
\* one.
C25_UnknownSourceIsEmpty ==
    (last.op = "fetch" /\ last.args.source \notin {SalesTable, UserGeoTable})
        => last.ret = EmptyFrame

\* C30: a fetch_data call served from the cache under the key an earlier call
\* stored its entry under has the source and the column list of that call.
C30_KeySeparatesRequests ==
    [][ ( /\ last'.op = "fetch" /\ last'.path = "hit"
          /\ watch.set /\ watch.path = "miss"
          /\ last'.key = watch.key )
        => /\ last'.args.source = watch.args.source
           /\ last'.args.columns = watch.args.columns ]_vars

\* C17: check_for_updates returns true exactly when the Data Store changed,
\* and then the sales and the geo dataset are both replaced by data of one new
\* generation; when it returns false the Data Store is as it was.  In every
\* step the two datasets change together or not at all.
C17_UpdateReplacesBothOrNothing ==
    [][ /\ last'.op = "check" =>
              /\ last'.ret <=> db' # db
              /\ last'.ret =>
                    /\ db'._sales_data # db._sales_data
                    /\ db'._geo_data # db._geo_data
                    /\ \E g \in 0..(MaxGen + 1) :
                          /\ Fresh(db'._sales_data, g) /\ Fresh(db'._geo_data, g)
                          /\ ~Fresh(db._sales_data, g) /\ ~Fresh(db._geo_data, g)
                    /\ Columns(db'._sales_data) = Columns(db._sales_data)
                    /\ Columns(db'._geo_data) = Columns(db._geo_data)
              /\ ~last'.ret => db' = db
        /\ (db'._sales_data # db._sales_data) <=> (db'._geo_data # db._geo_data) ]_vars

\* a second change was reported by check_for_updates while the data cache held
\* entries and a fetch_data call was under way
C17_Witness ==
    /\ last.op = "check" /\ last.ret
    /\ db._last_update_time = 2
    /\ DOMAIN DATA_CACHE # {}
    /\ ~Quiet

----------------------------------------------------------------------------
(* Properties of the insight cache *)

\* the canned insight the specification states for a chart type
StatedInsight(chart_type) ==
    IF chart_type = "line"
    THEN "Generated from raw sales_table. Product B remains strong compared to others."
    ELSE IF chart_type = "map"
    THEN "Generated from user_geo_table. Dense clustering near metropolitan areas."
    ELSE "No specific insight available for this data."

\* C18: a generate_chart_insight call that finds its key in the insight cache
\* returns the stored string at once and changes nothing; a call goes on to
\* generate only when it did not find its key, and then it returns the canned
\* string of the chart type (line, map, or the default for any other type),
\* whatever the key, and stores it under the key, leaving the other entries as
\* they were.
C18_InsightHitOrCanned ==
    [][ /\ \A t \in Threads :
              (threads[t].pc = "idle" /\ threads'[t].pc = "insight")
                 => threads'[t].key \notin DOMAIN INSIGHT_CACHE
        /\ last'.op = "insight" =>
              IF threads[last'.thread].pc = "idle"
              THEN /\ last'.key \in DOMAIN INSIGHT_CACHE
                   /\ last'.ret = INSIGHT_CACHE[last'.key]
                   /\ INSIGHT_CACHE' = INSIGHT_CACHE
              ELSE /\ last'.ret = StatedInsight(last'.chart_type)
                   /\ DOMAIN INSIGHT_CACHE' = DOMAIN INSIGHT_CACHE \cup {last'.key}
                   /\ INSIGHT_CACHE'[last'.key] = last'.ret
                   /\ \A k \in DOMAIN INSIGHT_CACHE \ {last'.key} :
                         INSIGHT_CACHE'[k] = INSIGHT_CACHE[k] ]_vars

\* a key stored by a call for a line chart was asked again for a map, and the
\* stored line insight came back
C18_Witness ==
    /\ last.op = "insight" /\ last.path = "hit"
    /\ last.chart_type = "map"
    /\ last.ret = StatedInsight("line")
    /\ INSIGHT_CACHE[last.key] = last.ret

----------------------------------------------------------------------------
(* Properties of the chart generator *)

\* the y columns of the config that the call could draw: those the data has,
\* when it has the x column too
Drawable(data, config) ==
    LET x_col == IF "x" \in DOMAIN config THEN config.x ELSE Date
        y_cols == IF "y" \in DOMAIN config THEN config.y ELSE <<>>
    IN  IF \E i \in 1..Len(data) : data[i].name = x_col
        THEN Intersection(y_cols, Columns(data))
        ELSE <<>>

\* C10: generate_universal_chart returns a result for every input; for a type
\* other than line and map the spec is the placeholder titled 'Unknown Chart
\* Type'; a line chart has one trace per y column the data has and none for a
\* column it lacks; a map whose lat or lon column is missing has no geometry.
C10_ChartNeverFails ==
    last.op = "chart" =>
        /\ "spec" \in DOMAIN last.ret
        /\ last.chart_type \notin {"line", "map"} =>
              /\ DOMAIN last.ret.spec # {}
              /\ last.ret.spec.layout.title = "Unknown Chart Type"
        /\ last.chart_type = "line" =>
              /\ [i \in 1..Len(last.ret.spec.data) |-> last.ret.spec.data[i].name]
                    = Drawable(last.data, last.config)
              /\ \A i \in 1..Len(last.ret.spec.data) :
                    last.ret.spec.data[i].y \in {last.data[j] : j \in 1..Len(last.data)}
        /\ last.chart_type = "map" =>
              LET lat_col == IF "lat" \in DOMAIN last.config THEN last.config.lat ELSE Lat
                  lon_col == IF "lon" \in DOMAIN last.config THEN last.config.lon ELSE Lon
                  has == {last.data[j].name : j \in 1..Len(last.data)}
              IN  IF lat_col \in has /\ lon_col \in has
                  THEN Len(last.ret.spec.data) = 1
                  ELSE DOMAIN last.ret.spec = {}

\* a line chart was asked for with a y column the data lacks, and drawn with
\* the others
C10_Witness ==
    /\ last.op = "chart" /\ last.chart_type = "line"
    /\ "y" \in DOMAIN last.config
    /\ Len(last.ret.spec.data) > 0
    /\ Len(last.ret.spec.data) < Len(last.config.y)

====
